---- MODULE Spec2Model ----
(***************************************************************************)
(* Model of the soustack-app recipe core:                                  *)
(*   - the HTML extraction of the scrape endpoint                          *)
(*     (src/routes/api/scrape/+server.ts, POST, html branch);              *)
(*   - the amount formatter of IngredientList.svelte (formatAmount).       *)
(*                                                                         *)
(* Text is modelled as a sequence of one-character strings so that trim()  *)
(* and truthiness ('' is falsy) are computed, not assumed.  The fraction   *)
(* glyphs are written in ASCII: "1/8" stands for the glyph U+215B, "1/4"   *)
(* for U+00BC, "1/3" for U+2153, "3/8" for U+215C, "1/2" for U+00BD,       *)
(* "5/8" for U+215D, "2/3" for U+2154, "3/4" for U+00BE, "7/8" for U+215E. *)
(***************************************************************************)
EXTENDS Integers, Sequences, FiniteSets, TLC

\* ------------------------------------------------------------------ bounds
MaxScripts == 2
MaxItems == 2
MaxIngredients == 3
MaxWhole == 3
MaxValues == 2
MaxTokens == 2
MaxTags == 2
MaxNames == 1
MaxRuns == 2
MaxImages == 2
MaxSteps == 2
MaxCalls == 2
MaxGallery == 3

\* ------------------------------------------------------------ JSON values
\* The '@type' field of a parsed JSON value: absent, a string, or an array.
NoType == [form |-> "none", vals |-> <<>>]
StrType(s) == [form |-> "str", vals |-> <<s>>]
ArrType(v) == [form |-> "arr", vals |-> v]

\* JavaScript null: the JSON literal null and the initial jsonLdRecipe.
JsNull == [kind |-> "null", type |-> NoType, name |-> ""]
Obj(t, n) == [kind |-> "obj", type |-> t, name |-> n]

Crumb == Obj(StrType("BreadcrumbList"), "")
RecipeA == Obj(StrType("Recipe"), "A")
RecipeB == Obj(ArrType(<<"HowTo", "Recipe">>), "")
MultiOther == Obj(ArrType(<<"Article", "RecipeCard">>), "C")

ArrayItems == {JsNull, Crumb, RecipeA, RecipeB}
ValueItems == ArrayItems \cup {MultiOther}

SeqsUpTo(S, n) == UNION {[1..k -> S] : k \in 0..n}

\* The script blocks: content that is empty, that JSON.parse rejects, that
\* parses to an array, or that parses to a single value.
EmptyBlock == [kind |-> "empty", items |-> <<>>]
MalformedBlock == [kind |-> "malformed", items |-> <<>>]
ArrayBlock(items) == [kind |-> "array", items |-> items]
ValueBlock(item) == [kind |-> "value", items |-> <<item>>]

\* The script sequences: up to MaxScripts blocks with simple payloads, and
\* every array payload of up to MaxItems entries between a few neighbours.
SimpleBlocks ==
  {EmptyBlock, MalformedBlock, ArrayBlock(<<Crumb, RecipeA>>)}
    \cup {ValueBlock(i) : i \in ValueItems}
ArrayBlocks == {ArrayBlock(s) : s \in SeqsUpTo(ArrayItems, MaxItems)}
ScriptSeqs ==
  SeqsUpTo(SimpleBlocks, MaxScripts)
    \cup {before \o <<b>> \o after :
            before \in {<<>>, <<MalformedBlock>>, <<ValueBlock(Crumb)>>},
            b \in ArrayBlocks,
            after \in {<<>>, <<ValueBlock(RecipeA)>>}}

\* ------------------------------------------------------------------- text
Sp == " "
IsSpace(c) == c = Sp

RECURSIVE TrimStart(_)
TrimStart(s) ==
  IF s = <<>> THEN <<>>
  ELSE IF IsSpace(Head(s)) THEN TrimStart(Tail(s))
  ELSE s

RECURSIVE TrimEnd(_)
TrimEnd(s) ==
  IF s = <<>> THEN <<>>
  ELSE IF IsSpace(s[Len(s)]) THEN TrimEnd(SubSeq(s, 1, Len(s) - 1))
  ELSE s

\* String.prototype.trim
Trim(s) == TrimEnd(TrimStart(s))

\* a || b on strings: '' (and an absent attribute) is falsy
Or(a, b) == IF a # <<>> THEN a ELSE b

\* -------------------------------------------------------------- microdata
\* const simpleProps = [...]
simpleProps ==
  <<"name", "description", "image", "author", "prepTime", "cookTime",
    "totalTime", "recipeYield", "recipeCategory", "recipeCuisine">>
SimplePropSet == {simpleProps[i] : i \in DOMAIN simpleProps}

\* An element carrying an itemprop: its content, href and src attributes
\* (<<>> when absent or empty), the text of its first itemprop="text"
\* descendant (<<>> when there is none) and its text content.
Elem(c, h, s, n, t) ==
  [content |-> c, href |-> h, src |-> s, nested |-> n, text |-> t]
BlankElem == Elem(<<>>, <<>>, <<>>, <<>>, <<>>)

NameElems ==
  {Elem(c, h, s, <<>>, t) :
     c \in {<<>>, <<"c">>}, h \in {<<>>, <<"h">>}, s \in {<<>>, <<"s">>},
     t \in {<<>>, <<Sp>>, <<Sp, "t", Sp>>}}
NameNodeSeqs ==
  {<<>>} \cup {<<e>> : e \in NameElems}
    \cup {<<e, Elem(<<"z">>, <<>>, <<>>, <<>>, <<"w">>)>> :
            e \in {BlankElem, Elem(<<>>, <<>>, <<>>, <<>>, <<Sp>>),
                   Elem(<<>>, <<"h">>, <<>>, <<>>, <<"t">>)}}

IngredientElems ==
  {Elem(c, <<>>, <<>>, <<>>, t) :
     c \in {<<>>, <<"i">>}, t \in {<<>>, <<Sp>>, <<"x", Sp>>}}

InstructionElems ==
  {Elem(<<>>, <<>>, <<>>, <<"n">>, <<"n", Sp, "m">>),
   Elem(<<>>, <<>>, <<>>, <<>>, <<Sp>>),
   Elem(<<"k">>, <<>>, <<>>, <<>>, <<"m">>)}

\* What the selector '[itemscope][itemtype*="schema.org/Recipe"]' and the
\* find() calls below it see: whether a Recipe itemscope exists and, inside
\* the first one, the elements per itemprop in document order.
NoNodes == [p \in SimplePropSet |-> <<>>]
RecipeEl(present, nodes, ingredients, instructions) ==
  [present |-> present, nodes |-> nodes, ingredients |-> ingredients,
   instructions |-> instructions]
NoRecipeEl == RecipeEl(FALSE, NoNodes, <<>>, <<>>)
EmptyShell == RecipeEl(TRUE, NoNodes, <<>>, <<>>)
NamedShell ==
  RecipeEl(TRUE,
           [NoNodes EXCEPT !["name"] = <<Elem(<<>>, <<>>, <<>>, <<>>, <<"M">>)>>],
           <<Elem(<<>>, <<>>, <<>>, <<>>, <<"x">>)>>, <<>>)

Extras ==
  {[image |-> <<>>, instructions |-> <<>>],
   [image |-> <<Elem(<<>>, <<>>, <<"s">>, <<>>, <<>>)>>, instructions |-> <<>>]}
    \cup {[image |-> <<>>, instructions |-> <<e>>] : e \in InstructionElems}

FewIngredientSeqs ==
  {<<>>, <<Elem(<<>>, <<>>, <<>>, <<>>, <<Sp>>)>>,
   <<Elem(<<>>, <<>>, <<>>, <<>>, <<"x", Sp>>)>>}
FewNameNodeSeqs == {<<>>, <<Elem(<<>>, <<>>, <<>>, <<>>, <<"M">>)>>}

RichRecipeEls ==
  {RecipeEl(TRUE,
            [NoNodes EXCEPT !["name"] = n, !["image"] = x.image],
            g, x.instructions) :
     n \in NameNodeSeqs, x \in Extras, g \in FewIngredientSeqs}
    \cup {RecipeEl(TRUE, [NoNodes EXCEPT !["name"] = n], g, <<>>) :
            n \in FewNameNodeSeqs,
            g \in SeqsUpTo(IngredientElems, MaxIngredients)}

\* The HTML documents: every script sequence with a few microdata shapes,
\* and every microdata shape with a few script sequences.
Html(scripts, micro) == [scripts |-> scripts, micro |-> micro]
Documents ==
  {Html(s, m) : s \in ScriptSeqs,
                m \in {NoRecipeEl, EmptyShell, NamedShell}}
    \cup {Html(s, m) : s \in {<<>>, <<ValueBlock(Crumb)>>},
                       m \in RichRecipeEls}

\* ------------------------------------------------------------- candidates
\* const microdataRecipe: any = {}
NoMicro ==
  [keys |-> {}, val |-> [p \in SimplePropSet |-> <<>>],
   recipeIngredient |-> <<>>, recipeInstructions |-> <<>>]

\* schemaOrgRecipe: undefined, the JSON-LD object, or the microdata object
Candidate(o, i, m) == [origin |-> o, item |-> i, micro |-> m]
NoCandidate == Candidate("none", JsNull, NoMicro)

VARIABLES
  html,             \* the request's html, as cheerio sees it
  pc,               \* position of the POST handler inside the html branch
  idx,              \* index of the script block scripts.each is visiting
  jsonLdRecipe,     \* let jsonLdRecipe: any = null
  schemaOrgRecipe,  \* let schemaOrgRecipe
  microdataRecipe,  \* const microdataRecipe: any = {}
  microdataRan,     \* whether the microdata branch (else of line 68) was entered
  outcome,          \* "pending", "found", "not-found" (400) or "error500"
  amount,           \* formatAmount's argument, a fraction num/den
  formatted,        \* formatAmount's result
  fpc,              \* "call" before formatAmount returns, "done" after
  ing,              \* scaleIngredient's argument ing
  factor,           \* scaleIngredient's argument factor, a fraction
  result,           \* what scaleIngredient returned (or that it threw)
  spc,              \* "call" before scaleIngredient returns, "done" after
  recipe,           \* the recipe object the endpoint or importRecipe holds
  db,               \* db.recipes, in the order the recipes were added
  tpc,              \* which of the tag sanitizers ran last, or is running
  recipes,          \* cleanupRecipeTags: const recipes = toArray()
  cursor,           \* cleanupRecipeTags: position of the for loop
  cleanedCount,     \* cleanupRecipeTags: let cleanedCount
  returned,         \* what the finished cleanupRecipeTags calls returned
  given,            \* addRecipe's argument recipe
  importedFrom,     \* addRecipe's argument importedFrom
  stored,           \* the StoredRecipe addRecipe put into db.recipes
  exported,         \* what exportRecipe returned
  xpc,              \* "add", "export" or "done"
  imageRecipe,      \* the recipe given to the image utilities
  pattern,          \* what detectImagePattern returned
  primary,          \* what getPrimaryImage returned
  allImages,        \* what getAllImages returned
  ipc,              \* "call" before the utilities return, "done" after
  recipeRow,        \* the db.recipes row of the recipe id
  ingredientIndex,  \* db.ingredientIndex rows of the recipe id
  notes,            \* number of db.notes rows of the recipe id
  versions,         \* db.versions rows of the recipe id
  nextVersionId,    \* next ++id of db.versions
  calls,            \* the asynchronous calls made so far, with their locals
  images,           \* the images prop: the array's identity and its srcs
  activeIndex,      \* index into imageEntries of the image shown
  failedImages,     \* indices into images of the images that failed to load
  lastImagesRef,    \* identity of the array seen by the last reset
  imageEntries,     \* the displayable images, as of the last update
  hasImages,        \* imageEntries.length > 0
  hasMultiple,      \* imageEntries.length > 1
  event             \* the handler that ran last

extractVars ==
  <<html, pc, idx, jsonLdRecipe, schemaOrgRecipe, microdataRecipe,
    microdataRan, outcome>>
formatVars == <<amount, formatted, fpc>>
scaleVars == <<ing, factor, result, spc>>
tagVars == <<recipe, db, tpc, recipes, cursor, cleanedCount, returned>>
exportVars == <<given, importedFrom, stored, exported, xpc>>
imageVars == <<imageRecipe, pattern, primary, allImages, ipc>>
storeVars == <<recipeRow, ingredientIndex, notes, versions, nextVersionId, calls>>
galleryVars == <<images, activeIndex, failedImages, lastImagesRef, imageEntries, hasImages, hasMultiple, event>>
vars == <<extractVars, formatVars, scaleVars, tagVars, exportVars, imageVars, storeVars, galleryVars>>

\* ------------------------------------------------------ JSON-LD extraction
\* item['@type'] === 'Recipe' ||
\*   (Array.isArray(item['@type']) && item['@type'].includes('Recipe'))
IsRecipeType(item) ==
  \/ item.type.form = "str" /\ item.type.vals = <<"Recipe">>
  \/ item.type.form = "arr"
       /\ \E i \in DOMAIN item.type.vals : item.type.vals[i] = "Recipe"

\* Result of running the body of the try block on one script block.
Threw == [threw |-> TRUE, hit |-> FALSE, item |-> JsNull]
Miss == [threw |-> FALSE, hit |-> FALSE, item |-> JsNull]
Hit(item) == [threw |-> FALSE, hit |-> TRUE, item |-> item]

\* Reading a property of null throws a TypeError.
TypeTest(item) ==
  IF item.kind = "null" THEN Threw
  ELSE IF IsRecipeType(item) THEN Hit(item)
  ELSE Miss

\* for (const item of data) { if (...) { jsonLdRecipe = item; return false } }
RECURSIVE ScanArray(_, _)
ScanArray(items, i) ==
  IF i > Len(items) THEN Miss
  ELSE LET r == TypeTest(items[i])
       IN IF r.threw \/ r.hit THEN r ELSE ScanArray(items, i + 1)

\* const data = JSON.parse(content); if (Array.isArray(data)) ... else if ...
TryBody(block) ==
  IF block.kind = "malformed" THEN Threw
  ELSE IF block.kind = "array" THEN ScanArray(block.items, 1)
  ELSE TypeTest(block.items[1])

\* Variant: no catch block, the exception leaves the callback.
CatchRethrow(r) == r

\* catch (e) { /* Invalid JSON, skip */ }
CatchSkip(r) == IF r.threw THEN Miss ELSE r

\* The scripts.each callback on one block.
EachCallback(block) ==
  IF block.kind = "empty" THEN Miss
  ELSE CatchSkip(TryBody(block))

\* Variant: the try/catch encloses the whole scripts.each call, so that a
\* throwing block ends the scan.
ScanScriptAbortOnThrow ==
  /\ pc = "jsonld"
  /\ idx <= Len(html.scripts)
  /\ LET b == html.scripts[idx]
         r == IF b.kind = "empty" THEN Miss ELSE TryBody(b)
     IN IF r.threw
        THEN /\ pc' = "coordinate"
             /\ UNCHANGED <<idx, jsonLdRecipe>>
        ELSE IF r.hit
        THEN /\ jsonLdRecipe' = r.item
             /\ pc' = "coordinate"
             /\ UNCHANGED idx
        ELSE /\ idx' = idx + 1
             /\ UNCHANGED <<pc, jsonLdRecipe>>
  /\ UNCHANGED <<html, schemaOrgRecipe, microdataRecipe, microdataRan,
                 outcome, formatVars, scaleVars, tagVars, exportVars, imageVars, storeVars, galleryVars>>

\* One visit of scripts.each; 'return false' ends the iteration.  An
\* exception leaving the callback reaches the handler's outer catch.
ScanScript ==
  /\ pc = "jsonld"
  /\ idx <= Len(html.scripts)
  /\ LET r == EachCallback(html.scripts[idx])
     IN IF r.threw
        THEN /\ pc' = "done"
             /\ outcome' = "error500"
             /\ UNCHANGED <<idx, jsonLdRecipe>>
        ELSE IF r.hit
        THEN /\ jsonLdRecipe' = r.item
             /\ pc' = "coordinate"
             /\ UNCHANGED <<idx, outcome>>
        ELSE /\ idx' = idx + 1
             /\ UNCHANGED <<pc, jsonLdRecipe, outcome>>
  /\ UNCHANGED <<html, schemaOrgRecipe, microdataRecipe, microdataRan,
                 formatVars, scaleVars, tagVars, exportVars, imageVars, storeVars, galleryVars>>

\* scripts.each returns after the last block.
ScanEnd ==
  /\ pc = "jsonld"
  /\ idx > Len(html.scripts)
  /\ pc' = "coordinate"
  /\ UNCHANGED <<html, idx, jsonLdRecipe, schemaOrgRecipe, microdataRecipe,
                 microdataRan, outcome, formatVars, scaleVars, tagVars, exportVars, imageVars, storeVars, galleryVars>>

\* Variant: the microdata branch is entered whatever the JSON-LD scan gave.
CoordinateMicrodataToo ==
  /\ pc = "coordinate"
  /\ IF jsonLdRecipe.kind # "null"
     THEN schemaOrgRecipe' = Candidate("jsonld", jsonLdRecipe, NoMicro)
     ELSE UNCHANGED schemaOrgRecipe
  /\ pc' = "microdata"
  /\ UNCHANGED <<html, idx, jsonLdRecipe, microdataRecipe, microdataRan,
                 outcome, formatVars, scaleVars, tagVars, exportVars, imageVars, storeVars, galleryVars>>

\* if (jsonLdRecipe) { schemaOrgRecipe = jsonLdRecipe } else { microdata }
Coordinate ==
  /\ pc = "coordinate"
  /\ IF jsonLdRecipe.kind # "null"
     THEN /\ schemaOrgRecipe' = Candidate("jsonld", jsonLdRecipe, NoMicro)
          /\ pc' = "respond"
     ELSE /\ pc' = "microdata"
          /\ UNCHANGED schemaOrgRecipe
  /\ UNCHANGED <<html, idx, jsonLdRecipe, microdataRecipe, microdataRan,
                 outcome, formatVars, scaleVars, tagVars, exportVars, imageVars, storeVars, galleryVars>>

\* ----------------------------------------------------- microdata extraction
\* Variant: href is consulted before content.
PropValueHrefFirst(node) ==
  Or(node.href, Or(node.content, Or(node.src, Trim(node.text))))

\* node.attr('content') || node.attr('href') || node.attr('src')
\*   || node.text().trim()
PropValue(node) ==
  Or(node.content, Or(node.href, Or(node.src, Trim(node.text))))

\* Variant: ingredients.unshift instead of ingredients.push.
RECURSIVE CollectIngredientsUnshift(_)
CollectIngredientsUnshift(els) ==
  IF els = <<>> THEN <<>>
  ELSE LET text == Or(Head(els).content, Head(els).text)
           rest == CollectIngredientsUnshift(Tail(els))
       IN IF text # <<>> THEN rest \o <<Trim(text)>> ELSE rest

\* const text = $(el).attr('content') || $(el).text();
\* if (text) ingredients.push(text.trim());
RECURSIVE CollectIngredients(_)
CollectIngredients(els) ==
  IF els = <<>> THEN <<>>
  ELSE LET text == Or(Head(els).content, Head(els).text)
           rest == CollectIngredients(Tail(els))
       IN IF text # <<>> THEN <<Trim(text)>> \o rest ELSE rest

\* const text = $(el).attr('content')
\*   || $(el).find('[itemprop="text"]').first().text() || $(el).text();
\* if (text) instructions.push(text.trim());
RECURSIVE CollectInstructions(_)
CollectInstructions(els) ==
  IF els = <<>> THEN <<>>
  ELSE LET text == Or(Head(els).content, Or(Head(els).nested, Head(els).text))
           rest == CollectInstructions(Tail(els))
       IN IF text # <<>> THEN <<Trim(text)>> \o rest ELSE rest

\* The object built from the first Recipe itemscope (lines 77-98).
BuildMicrodata(recipeEl) ==
  LET ingredients == CollectIngredients(recipeEl.ingredients)
      instructions == CollectInstructions(recipeEl.instructions)
      props == {p \in SimplePropSet : recipeEl.nodes[p] # <<>>}
  IN [keys |-> props
                 \cup (IF Len(ingredients) > 0 THEN {"recipeIngredient"} ELSE {})
                 \cup (IF Len(instructions) > 0 THEN {"recipeInstructions"} ELSE {}),
      val |-> [p \in SimplePropSet |->
                 IF p \in props THEN PropValue(Head(recipeEl.nodes[p]))
                 ELSE <<>>],
      recipeIngredient |-> ingredients,
      recipeInstructions |-> instructions]

\* if ((microdataRecipe as any).name || ingredients.length)
AcceptMicrodata(m) ==
  m.val["name"] # <<>> \/ Len(m.recipeIngredient) > 0

\* The else branch of line 73: recipeEl lookup, extraction, acceptance.
ExtractMicrodata ==
  /\ pc = "microdata"
  /\ microdataRan' = TRUE
  /\ IF html.micro.present
     THEN LET m == BuildMicrodata(html.micro)
          IN /\ microdataRecipe' = m
             /\ IF AcceptMicrodata(m)
                THEN schemaOrgRecipe' = Candidate("microdata", JsNull, m)
                ELSE UNCHANGED schemaOrgRecipe
     ELSE UNCHANGED <<microdataRecipe, schemaOrgRecipe>>
  /\ pc' = "respond"
  /\ UNCHANGED <<html, idx, jsonLdRecipe, outcome, formatVars, scaleVars, tagVars, exportVars, imageVars, storeVars, galleryVars>>

\* if (!schemaOrgRecipe) return json({ error: 'No Schema.org recipe ...' },
\*   { status: 400 }); otherwise the handler goes on with the candidate.
Respond ==
  /\ pc = "respond"
  /\ outcome' = IF schemaOrgRecipe.origin = "none" THEN "not-found" ELSE "found"
  /\ pc' = "done"
  /\ UNCHANGED <<html, idx, jsonLdRecipe, schemaOrgRecipe, microdataRecipe,
                 microdataRan, formatVars, scaleVars, tagVars, exportVars, imageVars, storeVars, galleryVars>>

\* ------------------------------------------------------------ formatAmount
\* Amounts are fractions num/den; the formatter's intermediate values are
\* counted in eighths and its table keys in thousandths.
Amt(n, d) == [num |-> n, den |-> d]
Dens == {1, 3, 8, 16, 100}
Amounts == UNION {{Amt(n, d) : n \in 0..(MaxWhole * d)} : d \in Dens}

Abs(x) == IF x < 0 THEN -x ELSE x

\* Variant: Math.floor(amount * 8)
FloorEighths(a) == (8 * a.num) \div a.den

\* Math.round(amount * 8): the number of eighths, halves rounded up
RoundEighths(a) == (16 * a.num + a.den) \div (2 * a.den)

\* const fractions: Record<number, string>, keys in thousandths, in the
\* order Object.keys lists them
fractions ==
  <<[key |-> 125, glyph |-> "1/8"], [key |-> 250, glyph |-> "1/4"],
    [key |-> 333, glyph |-> "1/3"], [key |-> 375, glyph |-> "3/8"],
    [key |-> 500, glyph |-> "1/2"], [key |-> 625, glyph |-> "5/8"],
    [key |-> 667, glyph |-> "2/3"], [key |-> 750, glyph |-> "3/4"],
    [key |-> 875, glyph |-> "7/8"]>>

\* .find(f => Math.abs(frac - f) < 0.02), frac in thousandths;
\* 0 stands for undefined
ClosestFrac(fracMilli) ==
  LET hits == {i \in DOMAIN fractions :
                 Abs(fracMilli - fractions[i].key) < 20}
  IN IF hits = {} THEN 0
     ELSE CHOOSE i \in hits : \A j \in hits : i <= j

\* rounded.toFixed(1).replace(/\.0$/, '') for rounded = k/8
ToFixed1(k) ==
  LET tenths == (20 * k + 8) \div 16
  IN IF tenths % 10 = 0 THEN ToString(tenths \div 10)
     ELSE ToString(tenths \div 10) \o "." \o ToString(tenths % 10)

\* function formatAmount(amount: number, unit: string | null): string
\* (a.den = 0 stands for the non-finite numbers: 1/0 is Infinity, which
\* every test of the function lets through to toString, 0/0 is NaN, which
\* reaches toFixed)
formatAmount(a, unit) ==
  LET k == IF a.den = 0 THEN 0 ELSE RoundEighths(a)
      whole == k \div 8
      frac == 125 * (k % 8)
      closestFrac == ClosestFrac(frac)
  IN IF a.den = 0
     THEN (IF a.num = 0 THEN "NaN" ELSE "Infinity")
     ELSE IF closestFrac # 0
     THEN IF whole = 0 THEN fractions[closestFrac].glyph
          ELSE ToString(whole) \o " " \o fractions[closestFrac].glyph
     ELSE IF k % 8 = 0 THEN ToString(whole)
     ELSE ToFixed1(k)

\* One call of formatAmount.
FormatAmount ==
  /\ fpc = "call"
  /\ formatted' = formatAmount(amount, "")
  /\ fpc' = "done"
  /\ UNCHANGED <<amount, extractVars, scaleVars, tagVars, exportVars, imageVars, storeVars, galleryVars>>

\* ---------------------------------------------------------------- numbers
\* JavaScript numbers as fractions num/den with den > 0, kept in lowest
\* terms; Infinity is 1/0 and NaN is 0/0.
Infinity == Amt(1, 0)
NaN == Amt(0, 0)
isNaN(a) == a = NaN

RECURSIVE Gcd(_, _)
Gcd(a, b) == IF b = 0 THEN a ELSE Gcd(b, a % b)

Norm(a) ==
  IF a.den = 0 THEN a
  ELSE LET g == Gcd(Abs(a.num), a.den)
       IN Amt(a.num \div g, a.den \div g)

Whole(n) == Amt(n, 1)

\* a * b, a + b and a / b on non-negative numbers
Mul(a, b) ==
  IF isNaN(a) \/ isNaN(b) THEN NaN
  ELSE IF a.den = 0 \/ b.den = 0
  THEN (IF a.num = 0 \/ b.num = 0 THEN NaN ELSE Infinity)
  ELSE Norm(Amt(a.num * b.num, a.den * b.den))

Add(a, b) ==
  IF isNaN(a) \/ isNaN(b) THEN NaN
  ELSE IF a.den = 0 \/ b.den = 0 THEN Infinity
  ELSE Norm(Amt(a.num * b.den + b.num * a.den, a.den * b.den))

Div(a, b) ==
  IF isNaN(a) \/ isNaN(b) THEN NaN
  ELSE IF a.den = 0 THEN (IF b.den = 0 THEN NaN ELSE Infinity)
  ELSE IF b.den = 0 THEN Whole(0)
  ELSE IF b.num = 0 THEN (IF a.num = 0 THEN NaN ELSE Infinity)
  ELSE Norm(Amt(a.num * b.den, a.den * b.num))

\* a < b on finite numbers
Less(a, b) == a.num * b.den < b.num * a.den

\* Math.max, Math.min, Math.round (halves up) and Math.abs(a - b)
MathMax(a, b) == IF Less(a, b) THEN b ELSE a
MathMin(a, b) == IF Less(b, a) THEN b ELSE a
MathRound(a) == Whole((2 * a.num + a.den) \div (2 * a.den))
Dist(a, b) == Norm(Amt(Abs(a.num * b.den - b.num * a.den), a.den * b.den))

\* Math.pow(f, e) for the factors and exponents of the model: exact where
\* the power is rational, otherwise rounded to four decimals.
PowTable ==
  <<[f |-> Amt(1, 4), e |-> Amt(1, 2), p |-> Amt(1, 2)],
    [f |-> Amt(1, 4), e |-> Amt(7, 10), p |-> Amt(3789, 10000)],
    [f |-> Amt(1, 4), e |-> Amt(4, 5), p |-> Amt(3299, 10000)],
    [f |-> Amt(13, 10), e |-> Amt(1, 2), p |-> Amt(11402, 10000)],
    [f |-> Amt(13, 10), e |-> Amt(7, 10), p |-> Amt(12016, 10000)],
    [f |-> Amt(13, 10), e |-> Amt(4, 5), p |-> Amt(12335, 10000)],
    [f |-> Amt(2, 1), e |-> Amt(1, 2), p |-> Amt(14142, 10000)],
    [f |-> Amt(2, 1), e |-> Amt(7, 10), p |-> Amt(16245, 10000)],
    [f |-> Amt(2, 1), e |-> Amt(4, 5), p |-> Amt(17411, 10000)],
    [f |-> Amt(4, 1), e |-> Amt(1, 2), p |-> Amt(2, 1)],
    [f |-> Amt(4, 1), e |-> Amt(7, 10), p |-> Amt(26390, 10000)],
    [f |-> Amt(4, 1), e |-> Amt(4, 5), p |-> Amt(30314, 10000)]>>

\* Variant: factor * exponent in the place of Math.pow(factor, exponent).
MathPowLinear(f, e) == Mul(f, e)

MathPow(f, e) ==
  IF f = Whole(1) \/ e = Whole(0) THEN Whole(1)
  ELSE IF e = Whole(1) THEN f
  ELSE LET i == CHOOSE i \in DOMAIN PowTable :
                  PowTable[i].f = f /\ PowTable[i].e = e
       IN Norm(PowTable[i].p)

\* ------------------------------------------------------- scaleIngredient
Digits == {"0", "1", "2", "3", "4", "5", "6", "7", "8", "9"}
DigitVal(c) == CHOOSE d \in 0..9 : ToString(d) = c

UpperCase == <<"A", "B", "C", "D", "E", "F", "G", "H", "I", "J", "K", "L", "M",
               "N", "O", "P", "Q", "R", "S", "T", "U", "V", "W", "X", "Y", "Z">>
LowerCase == <<"a", "b", "c", "d", "e", "f", "g", "h", "i", "j", "k", "l", "m",
               "n", "o", "p", "q", "r", "s", "t", "u", "v", "w", "x", "y", "z">>

\* String.prototype.toLowerCase, on one character and on a text
LowerChar(c) ==
  IF \E i \in DOMAIN UpperCase : UpperCase[i] = c
  THEN LowerCase[CHOOSE i \in DOMAIN UpperCase : UpperCase[i] = c]
  ELSE c
toLowerCase(s) == [i \in DOMAIN s |-> LowerChar(s[i])]

\* the character class [\d\/\s.]
NumClass(c) == c \in Digits \cup {"/", Sp, "."}

\* length of the longest prefix of s matched by [\d\/\s.]*
RECURSIVE LeadLen(_)
LeadLen(s) ==
  IF s = <<>> \/ ~NumClass(Head(s)) THEN 0 ELSE 1 + LeadLen(Tail(s))

Drop(s, n) == SubSeq(s, n + 1, Len(s))
Take(s, n) == SubSeq(s, 1, n)

\* length of the leading run of digits of s
RECURSIVE DigitRun(_)
DigitRun(s) ==
  IF s = <<>> \/ Head(s) \notin Digits THEN 0 ELSE 1 + DigitRun(Tail(s))

RECURSIVE DigitsValue(_)
DigitsValue(s) ==
  IF s = <<>> THEN 0
  ELSE 10 * DigitsValue(Take(s, Len(s) - 1)) + DigitVal(s[Len(s)])

RECURSIVE Pow10(_)
Pow10(k) == IF k = 0 THEN 1 ELSE 10 * Pow10(k - 1)

\* The longest decimal literal (digits, optional point, digits) s starts
\* with: how many characters it takes and its value; len = 0 when s does
\* not start with a number.
DecimalPrefix(s) ==
  LET i == DigitRun(s)
      hasPoint == Len(s) > i /\ s[i + 1] = "."
      f == IF hasPoint THEN DigitRun(Drop(s, i + 1)) ELSE 0
  IN IF i + f = 0 THEN [len |-> 0, val |-> NaN]
     ELSE [len |-> i + f + (IF hasPoint THEN 1 ELSE 0),
           val |-> Norm(Amt(DigitsValue(Take(s, i)) * Pow10(f)
                              + DigitsValue(SubSeq(s, i + 2, i + 1 + f)),
                            Pow10(f)))]

\* parseFloat(s): the number s starts with, NaN when there is none
parseFloat(s) == DecimalPrefix(s).val

\* Number(s): 0 for '', the number s spells, NaN for anything else
Number(s) ==
  IF s = <<>> THEN Whole(0)
  ELSE IF DecimalPrefix(s).len = Len(s) THEN DecimalPrefix(s).val
  ELSE NaN

\* s.split(c) for a single character c
RECURSIVE SplitChar(_, _)
SplitChar(s, c) ==
  IF \E i \in DOMAIN s : s[i] = c
  THEN LET i == CHOOSE i \in DOMAIN s :
                  s[i] = c /\ \A j \in 1..(i - 1) : s[j] # c
       IN <<Take(s, i - 1)>> \o SplitChar(Drop(s, i), c)
  ELSE <<s>>

\* s.split(/\s+/)
RECURSIVE SplitSpaces(_)
SplitSpaces(s) ==
  IF \E i \in DOMAIN s : IsSpace(s[i])
  THEN LET i == CHOOSE i \in DOMAIN s :
                  IsSpace(s[i]) /\ \A j \in 1..(i - 1) : ~IsSpace(s[j])
       IN <<Take(s, i - 1)>> \o SplitSpaces(TrimStart(Drop(s, i)))
  ELSE <<s>>

\* Variant: every part goes to parseFloat, fraction or not.
PartValueNoFraction(part) == parseFloat(part)

\* one round of the loop of parseFraction:
\* if (part.includes('/')) { const [num, denom] = part.split('/').map(Number);
\*   total += num / denom } else { total += parseFloat(part) }
PartValue(part) ==
  IF \E i \in DOMAIN part : part[i] = "/"
  THEN LET pieces == SplitChar(part, "/")
       IN Div(Number(pieces[1]), Number(pieces[2]))
  ELSE parseFloat(part)

RECURSIVE SumParts(_)
SumParts(parts) ==
  IF parts = <<>> THEN Whole(0)
  ELSE Add(PartValue(Head(parts)), SumParts(Tail(parts)))

\* function parseFraction(str: string): number
parseFraction(str) == SumParts(SplitSpaces(Trim(str)))

\* the alternatives of (?:cups?|tbsps?|tsps?|oz|lbs?|g|kg|ml|l|pinch|dash)
\* in the order the regular expression tries them
UnitWords ==
  <<<<"c", "u", "p", "s">>,
    <<"c", "u", "p">>,
    <<"t", "b", "s", "p", "s">>,
    <<"t", "b", "s", "p">>,
    <<"t", "s", "p", "s">>,
    <<"t", "s", "p">>,
    <<"o", "z">>,
    <<"l", "b", "s">>,
    <<"l", "b">>,
    <<"g">>,
    <<"k", "g">>,
    <<"m", "l">>,
    <<"l">>,
    <<"p", "i", "n", "c", "h">>,
    <<"d", "a", "s", "h">>>>

\* s starts with w, letter case ignored (flag i)
StartsWith(s, w) ==
  Len(s) >= Len(w) /\ \A i \in DOMAIN w : LowerChar(s[i]) = w[i]

\* item.replace(/^[\d\/\s.]+\s*(?:cups?|...|dash)\s*/i, '')
WithoutAmount(item) ==
  LET n == LeadLen(item)
      after == Drop(item, n)
      hits == {i \in DOMAIN UnitWords : StartsWith(after, UnitWords[i])}
  IN IF n = 0 \/ hits = {} THEN item
     ELSE LET u == CHOOSE i \in hits : \A j \in hits : i <= j
          IN TrimStart(Drop(after, Len(UnitWords[u])))

\* function extractName(item: string): string
extractName(item) == Trim(SplitChar(WithoutAmount(item), ",")[1])

\* The value scaleIngredient returns, or that it threw; amount is the local
\* scaledAmount where one was computed.
Unset == Amt(-1, 1)
Returned(display, scaled, amt) ==
  [threw |-> FALSE, display |-> display, scaled |-> scaled, amount |-> amt]
Thrown == [threw |-> TRUE, display |-> <<>>, scaled |-> FALSE, amount |-> Unset]
NoResult == Returned(<<>>, FALSE, Unset)

\* function scaleSimpleIngredient(ing: string, factor: number)
scaleSimpleIngredient(text, f) ==
  LET n == LeadLen(text)
      numPart == Take(text, n)
      rest == Drop(text, n)
      baseAmount == parseFraction(numPart)
      scaledAmount == Mul(baseAmount, f)
  IN IF f = Whole(1) THEN Returned(text, FALSE, Unset)
     ELSE IF n = 0 THEN Returned(text, FALSE, Unset)
     ELSE IF isNaN(baseAmount) THEN Returned(text, FALSE, Unset)
     ELSE Returned(<<formatAmount(scaledAmount, "")>> \o <<Sp>> \o rest,
                   TRUE, scaledAmount)

\* Variant: the comparison of the reduce callback reversed.
RECURSIVE ReduceFarthest(_, _, _, _)
ReduceFarthest(values, i, prev, target) ==
  IF i > Len(values) THEN prev
  ELSE ReduceFarthest(values, i + 1,
                      IF Less(Dist(prev, target), Dist(values[i], target))
                      THEN values[i] ELSE prev,
                      target)

\* Variant: a value as close as the accumulator replaces it (<= for <).
RECURSIVE ReduceLatest(_, _, _, _)
ReduceLatest(values, i, prev, target) ==
  IF i > Len(values) THEN prev
  ELSE ReduceLatest(values, i + 1,
                    IF Less(Dist(prev, target), Dist(values[i], target))
                    THEN prev ELSE values[i],
                    target)

\* ing.scaling.values.reduce((prev, curr) =>
\*   Math.abs(curr - scaledAmount) < Math.abs(prev - scaledAmount) ? curr : prev)
\* from index i on, with accumulator prev
RECURSIVE Reduce(_, _, _, _)
Reduce(values, i, prev, target) ==
  IF i > Len(values) THEN prev
  ELSE Reduce(values, i + 1,
              IF Less(Dist(values[i], target), Dist(prev, target))
              THEN values[i] ELSE prev,
              target)

\* Variant: Math.max with the maximum first, Math.min with the minimum after.
ClampMaxFirst(a, sc) ==
  LET capped == IF "max" \in sc.keys THEN MathMin(a, sc.max) ELSE a
  IN IF "min" \in sc.keys THEN MathMax(capped, sc.min) ELSE capped

\* if (ing.scaling?.min !== undefined) scaledAmount = Math.max(...)
\* if (ing.scaling?.max !== undefined) scaledAmount = Math.min(...)
Clamp(a, sc) ==
  LET raised == IF "min" \in sc.keys THEN MathMax(a, sc.min) ELSE a
  IN IF "max" \in sc.keys THEN MathMin(raised, sc.max) ELSE raised

\* Variant: the fixed case multiplies like the linear one.
FixedAmountScaled(base, f) == Mul(base, f)

\* case 'fixed': scaledAmount = baseAmount
FixedAmount(base, f) == base

\* Variant: the flag is always set.
ScaledFlagAlways(f) == TRUE

\* scaled: factor !== 1
ScaledFlag(f) == f # Whole(1)

\* the switch on scalingType; threw when reduce meets an empty array
Policy(base, sc, f) ==
  LET exp(default) == IF "factor" \in sc.keys THEN sc.factor ELSE default
      rounded == MathRound(Mul(base, f))
  IN CASE sc.type = "fixed" ->
            [threw |-> FALSE, amount |-> FixedAmount(base, f)]
       [] sc.type = "proportional" ->
            [threw |-> FALSE,
             amount |-> Mul(base, MathPow(f, exp(Amt(7, 10))))]
       [] sc.type = "discrete" ->
            IF "values" \in sc.keys
            THEN IF sc.values = <<>> THEN [threw |-> TRUE, amount |-> Unset]
                 ELSE [threw |-> FALSE,
                       amount |-> Reduce(sc.values, 2, sc.values[1], rounded)]
            ELSE [threw |-> FALSE, amount |-> rounded]
       [] sc.type = "sublinear" ->
            [threw |-> FALSE,
             amount |-> Mul(base, MathPow(f, exp(Amt(4, 5))))]
       [] OTHER -> [threw |-> FALSE, amount |-> Mul(base, f)]

\* function scaleIngredient(ing, factor): { display: string; scaled: boolean }
scaleIngredient(g, f) ==
  IF g.kind = "string" THEN scaleSimpleIngredient(g.item, f)
  ELSE IF ~g.quantity.present THEN Returned(g.item, FALSE, Unset)
  ELSE LET p == Policy(g.quantity.amount, g.scaling, f)
           scaledAmount == Clamp(p.amount, g.scaling)
           unit == IF g.quantity.unit # <<>> THEN <<Sp>> \o g.quantity.unit
                   ELSE <<>>
           name == Or(g.name, extractName(g.item))
           prep == IF g.prep # <<>> THEN <<",", Sp>> \o g.prep ELSE <<>>
       IN IF p.threw THEN Thrown
          ELSE Returned(<<formatAmount(scaledAmount, g.quantity.unit)>>
                          \o unit \o <<Sp>> \o name \o prep,
                        ScaledFlag(f), scaledAmount)

\* ------------------------------------------------ inputs of scaleIngredient
\* scaleFactor: any positive number
Factors == {Amt(1, 4), Whole(1), Amt(13, 10), Whole(2), Whole(4)}

\* quantity.amount
BaseAmounts == {Whole(0), Amt(1, 2), Whole(1), Amt(3, 2), Whole(4)}

\* scaling?: { type, factor?, values?, min?, max? }; keys holds the
\* optional members that are present.
Scaling(type, keys, f, values, min, max) ==
  [type |-> type, keys |-> keys, factor |-> f, values |-> values,
   min |-> min, max |-> max]

\* scaling absent: ing.scaling?.type ?? 'linear', every member undefined
NoScaling == Scaling("linear", {}, Whole(0), <<>>, Whole(0), Whole(0))

ScalingTypes == {"linear", "proportional", "sublinear", "fixed", "discrete"}
PermittedValues == {Amt(1, 2), Whole(2), Whole(4)}
ValueSeqs == SeqsUpTo(PermittedValues, MaxValues)
Mins == {Whole(1), Whole(3)}
Maxs == {Whole(2)}
ClampKeys == SUBSET {"min", "max"}

\* every clamp with an exponent payload and with or without a values array
PlainScalings ==
  {Scaling(t, ck \cup fk \cup vk, Amt(1, 2), <<>>, mn, mx) :
     t \in ScalingTypes \ {"discrete"}, ck \in ClampKeys,
     fk \in SUBSET {"factor"}, vk \in SUBSET {"values"},
     mn \in Mins, mx \in Maxs}

\* discrete with every sequence of permitted values, or none
DiscreteScalings ==
  {Scaling("discrete", ck \cup {"values"}, Whole(0), vs, mn, mx) :
     ck \in ClampKeys, vs \in ValueSeqs, mn \in Mins, mx \in Maxs}
  \cup
  {Scaling("discrete", ck, Whole(0), <<>>, mn, mx) :
     ck \in ClampKeys, mn \in Mins, mx \in Maxs}

Scalings == {NoScaling} \cup PlainScalings \cup DiscreteScalings

Quantity(amt, unit) == [present |-> TRUE, amount |-> amt, unit |-> unit]
NoQuantity == [present |-> FALSE, amount |-> Whole(0), unit |-> <<>>]

\* interface SoustackIngredient, and a plain string (kind "string", the
\* text in item)
Structured(item, quantity, name, prep, scaling) ==
  [kind |-> "object", item |-> item, quantity |-> quantity, name |-> name,
   prep |-> prep, scaling |-> scaling]
FreeText(text) ==
  [kind |-> "string", item |-> text, quantity |-> NoQuantity, name |-> <<>>,
   prep |-> <<>>, scaling |-> NoScaling]

Cups == <<"c", "u", "p", "s">>
Flour == <<"f", "l", "o", "u", "r">>
Sifted == <<"s", "i", "f", "t", "e", "d">>
Eggs == <<"e", "g", "g", "s">>
FlourItem == <<"2", " ", "c", "u", "p", "s", " ", "f", "l", "o", "u", "r", ",", " ", "s", "i", "f", "t", "e", "d">>
ButterItem == <<"1", "0", "0", "g", " ", "B", "u", "t", "t", "e", "r">>
SaltItem == <<"a", " ", "p", "i", "n", "c", "h", " ", "o", "f", " ", "s", "a", "l", "t">>

\* one shape under every amount and policy
ScaledFlour ==
  {Structured(FlourItem, Quantity(a, Cups), Flour, <<>>, sc) :
     a \in BaseAmounts, sc \in Scalings}

\* the other members present or absent, under a few policies
Shapes ==
  {Structured(item, q, name, prep, sc) :
     item \in {FlourItem, ButterItem, SaltItem},
     q \in {NoQuantity, Quantity(Amt(3, 2), <<>>), Quantity(Whole(1), Cups)},
     name \in {<<>>, Eggs}, prep \in {<<>>, Sifted},
     sc \in {NoScaling,
             Scaling("fixed", {}, Whole(0), <<>>, Whole(0), Whole(0)),
             Scaling("discrete", {}, Whole(0), <<>>, Whole(0), Whole(0))}}

\* free text: leading tokens separated by one space, then the rest
Tokens ==
  {<<"2">>,
   <<"1">>,
   <<"1", "/", "2">>,
   <<"1", "/", "4">>,
   <<"1", ".", "5">>,
   <<"1", "/", "0">>,
   <<"1", "/">>,
   <<"/", "2">>,
   <<".">>}
Rests == {<<>>, <<" ", "c", "u", "p", "s", " ", "f", "l", "o", "u", "r">>, <<"g", " ", "b", "u", "t", "t", "e", "r">>}
PlainTexts == {SaltItem, <<"s", "a", "l", "t">>, <<>>}

RECURSIVE Join(_)
Join(tokens) ==
  IF tokens = <<>> THEN <<>>
  ELSE IF Len(tokens) = 1 THEN Head(tokens)
  ELSE Head(tokens) \o <<Sp>> \o Join(Tail(tokens))

Texts ==
  PlainTexts \cup
  {Join(ts) \o rest : ts \in SeqsUpTo(Tokens, MaxTokens) \ {<<>>}, rest \in Rests}

Ingredients == ScaledFlour \cup Shapes \cup {FreeText(t) : t \in Texts}

\* One call of scaleIngredient, as made for each ingredient by the
\* {#each} block of the component.
ScaleIngredient ==
  /\ spc = "call"
  /\ result' = scaleIngredient(ing, factor)
  /\ spc' = "done"
  /\ UNCHANGED <<ing, factor, extractVars, formatVars, tagVars, exportVars, imageVars, storeVars, galleryVars>>

\* ------------------------------------------------------ tag sanitizers
\* \w, [,\s] and /^\d+$/
IsWordChar(c) ==
  \/ c \in Digits
  \/ c = "_"
  \/ \E i \in DOMAIN LowerCase : c = LowerCase[i] \/ c = UpperCase[i]
IsSeparator(c) == c = "," \/ IsSpace(c)
AllDigits(s) == s # <<>> /\ \A i \in DOMAIN s : s[i] \in Digits

\* s.replace(/[^\w]/g, '')
RECURSIVE StripNonWord(_)
StripNonWord(s) ==
  IF s = <<>> THEN <<>>
  ELSE IF IsWordChar(Head(s)) THEN <<Head(s)>> \o StripNonWord(Tail(s))
  ELSE StripNonWord(Tail(s))

RECURSIVE SkipSeparators(_)
SkipSeparators(s) ==
  IF s # <<>> /\ IsSeparator(Head(s)) THEN SkipSeparators(Tail(s)) ELSE s

\* s.split(/[,\s]+/): an empty piece where s starts or ends with a separator
RECURSIVE SplitSeparators(_)
SplitSeparators(s) ==
  IF \E i \in DOMAIN s : IsSeparator(s[i])
  THEN LET i == CHOOSE i \in DOMAIN s :
                  IsSeparator(s[i]) /\ \A j \in 1..(i - 1) : ~IsSeparator(s[j])
       IN <<Take(s, i - 1)>> \o SplitSeparators(SkipSeparators(Drop(s, i)))
  ELSE <<s>>

\* An ingredient as the sanitizers see it: a string, null, or an object
\* with the keys named in keys.
StringIng(text) == [kind |-> "string", text |-> text, keys |-> {},
                    name |-> <<>>, item |-> <<>>]
ObjectIng(keys, name, item) == [kind |-> "object", text |-> <<>>,
                                keys |-> keys, name |-> name, item |-> item]
NullIng == [kind |-> "null", text |-> <<>>, keys |-> {}, name |-> <<>>,
            item |-> <<>>]

\* scrape endpoint: ....split(/[,\s]+/)[0].replace(/[^\w]/g, ''), kept when
\* not empty
FirstName(text) ==
  LET name == StripNonWord(SplitSeparators(toLowerCase(text))[1])
  IN IF name # <<>> THEN {name} ELSE {}

\* importRecipe, cleanupRecipeTags: every part, cleaned, kept when longer
\* than 2 and not all digits
PartNames(text) ==
  LET parts == SplitSeparators(toLowerCase(text))
  IN {c \in {StripNonWord(parts[i]) : i \in DOMAIN parts} :
        c # <<>> /\ Len(c) > 2 /\ ~AllDigits(c)}

\* the names one ingredient adds to ingredientNames, at the endpoint
NamesOfScrape(g) ==
  IF g.kind = "string" THEN FirstName(g.text)
  ELSE IF g.kind = "object" /\ "name" \in g.keys
  THEN LET name == StripNonWord(toLowerCase(g.name))
       IN IF name # <<>> THEN {name} ELSE {}
  ELSE IF g.kind = "object" /\ "item" \in g.keys THEN FirstName(g.item)
  ELSE {}

\* the names one ingredient adds to ingredientNames, in db/recipes.ts
NamesOfImport(g) ==
  IF g.kind = "string" THEN PartNames(g.text)
  ELSE IF g.kind = "object" /\ "name" \in g.keys
  THEN LET name == StripNonWord(toLowerCase(g.name))
       IN IF name # <<>> /\ Len(name) > 2 THEN {name} ELSE {}
  ELSE IF g.kind = "object" /\ "item" \in g.keys THEN PartNames(g.item)
  ELSE {}

IngredientNamesScrape(ingredients) ==
  UNION {NamesOfScrape(ingredients[i]) : i \in DOMAIN ingredients}
IngredientNamesImport(ingredients) ==
  UNION {NamesOfImport(ingredients[i]) : i \in DOMAIN ingredients}

\* tag.toLowerCase().replace(/[^\w]/g, '') and, in db/recipes.ts,
\* tag.toLowerCase().trim().replace(/[^\w]/g, '')
TagLowerScrape(tag) == StripNonWord(toLowerCase(tag))
TagLowerImport(tag) == StripNonWord(Trim(toLowerCase(tag)))

\* recipe.tags.filter(tag => !ingredientNames.has(tagLower)
\*                           && tagLower.length > 2)
RECURSIVE FilterScrape(_, _)
FilterScrape(tags, names) ==
  IF tags = <<>> THEN <<>>
  ELSE (IF TagLowerScrape(Head(tags)) \notin names
           /\ Len(TagLowerScrape(Head(tags))) > 2
        THEN <<Head(tags)>> ELSE <<>>) \o FilterScrape(Tail(tags), names)

RECURSIVE FilterImport(_, _)
FilterImport(tags, names) ==
  IF tags = <<>> THEN <<>>
  ELSE (IF TagLowerImport(Head(tags)) \notin names
           /\ Len(TagLowerImport(Head(tags))) > 2
        THEN <<Head(tags)>> ELSE <<>>) \o FilterImport(Tail(tags), names)

\* A recipe: name, and the tags and ingredients arrays when their keys
\* are present.
Recipe(name, keys, tags, ingredients) ==
  [name |-> name, keys |-> keys, tags |-> tags, ingredients |-> ingredients]

\* if (recipe.tags && Array.isArray(recipe.tags) && recipe.ingredients && ...)
HasTagsAndIngredients(r) == {"tags", "ingredients"} \subseteq r.keys

\* tags: cleaned.length > 0 ? cleaned : undefined, and delete recipe.tags
WithTags(r, cleaned) ==
  IF cleaned = <<>> THEN [r EXCEPT !.keys = @ \ {"tags"}, !.tags = <<>>]
  ELSE [r EXCEPT !.tags = cleaned]

\* lines 203-238 of the endpoint, on the recipe it is about to return
CleanedByScrape(r) ==
  IF HasTagsAndIngredients(r)
  THEN WithTags(r, FilterScrape(r.tags, IngredientNamesScrape(r.ingredients)))
  ELSE r

\* lines 937-986 of importRecipe, on the recipe it was given
CleanedByImport(r) ==
  IF HasTagsAndIngredients(r)
  THEN WithTags(r, FilterImport(r.tags, IngredientNamesImport(r.ingredients)))
  ELSE r

\* ------------------------------------------------ inputs of the sanitizers
Chicken == <<"c", "h", "i", "c", "k", "e", "n">>
Dinner == <<"d", "i", "n", "n", "e", "r">>
Easy == <<"e", "a", "s", "y">>
LbsTag == <<"L", "b", "s", ".">>
Ok == <<"o", "k">>
TagTexts == {Chicken, Dinner, Easy, LbsTag, Ok}

ChickenBreast == <<"2", " ", "l", "b", "s", " ", "c", "h", "i", "c", "k", "e", "n", " ", "b", "r", "e", "a", "s", "t">>
ChickenDiced == <<"C", "h", "i", "c", "k", "e", "n", ",", " ", "d", "i", "c", "e", "d">>
ChickenName == <<"C", "h", "i", "c", "k", "e", "n", " ", "B", "r", "e", "a", "s", "t">>
TagIngredients ==
  {StringIng(ChickenBreast), StringIng(ChickenDiced), NullIng,
   ObjectIng({"item"}, <<>>, ChickenBreast),
   ObjectIng({"name", "item"}, ChickenName, ChickenBreast),
   ObjectIng({"name", "item"}, <<>>, ChickenDiced)}

Soup == <<"S", "o", "u", "p">>
TagSeqs == SeqsUpTo(TagTexts, MaxTags)
IngredientLists == SeqsUpTo(TagIngredients, MaxNames)
ExampleTags == <<Chicken, Dinner, Easy>>

\* every tag sequence over a few ingredient lists, every ingredient list
\* under a few tag sequences, and the recipes importRecipe rejects
TaggedRecipes ==
  {Recipe(Soup, {"tags", "ingredients"}, ts, gs) :
     ts \in TagSeqs,
     gs \in {<<StringIng(ChickenBreast)>>,
             <<ObjectIng({"name", "item"}, ChickenName, ChickenBreast)>>}}
  \cup
  {Recipe(Soup, {"tags", "ingredients"}, ts, gs) :
     ts \in {ExampleTags, <<Chicken>>}, gs \in IngredientLists}
UntaggedRecipes ==
  {Recipe(Soup, {"ingredients"}, <<>>, <<StringIng(ChickenBreast)>>),
   Recipe(<<>>, {"tags", "ingredients"}, ExampleTags,
          <<StringIng(ChickenBreast)>>),
   Recipe(Soup, {"tags"}, ExampleTags, <<>>)}
Recipes == TaggedRecipes \cup UntaggedRecipes

\* what db.recipes holds from before the sanitizers existed
StoredBefore ==
  {<<>>,
   <<Recipe(Soup, {"tags", "ingredients"}, ExampleTags,
            <<StringIng(ChickenBreast)>>),
     Recipe(Soup, {"tags", "ingredients"}, <<Chicken, Ok>>,
            <<StringIng(ChickenDiced)>>),
     Recipe(Soup, {"ingredients"}, <<>>, <<StringIng(ChickenDiced)>>)>>}

\* ------------------------------------------- the sanitizers as actions
\* POST /api/scrape, lines 203-238: the tags of the recipe the endpoint is
\* about to return.
ScrapeCleanTags ==
  /\ tpc = "start"
  /\ recipe' = CleanedByScrape(recipe)
  /\ tpc' = "scraped"
  /\ UNCHANGED <<db, recipes, cursor, cleanedCount, returned>>
  /\ UNCHANGED <<extractVars, formatVars, scaleVars, exportVars, imageVars, storeVars, galleryVars>>

\* if (!recipe.name || !recipe.ingredients) throw
Invalid(r) == r.name = <<>> \/ "ingredients" \notin r.keys

\* importRecipe(json): the recipe given (pasted, or as the endpoint
\* returned it) is checked, its tags cleaned in place, and addRecipe
\* stores it.
ImportRecipe ==
  /\ tpc \in {"start", "scraped"}
  /\ IF Invalid(recipe)
     THEN /\ tpc' = "threw"
          /\ UNCHANGED <<recipe, db>>
     ELSE /\ recipe' = CleanedByImport(recipe)
          /\ db' = Append(db, recipe')
          /\ tpc' = "imported"
  /\ UNCHANGED <<recipes, cursor, cleanedCount, returned>>
  /\ UNCHANGED <<extractVars, formatVars, scaleVars, exportVars, imageVars, storeVars, galleryVars>>

\* onMount: cleanupRecipeTags() starts, const recipes = toArray()
CleanupStart ==
  /\ tpc # "cleanup"
  /\ Len(returned) < MaxRuns
  /\ recipes' = db
  /\ cursor' = 1
  /\ cleanedCount' = 0
  /\ tpc' = "cleanup"
  /\ UNCHANGED <<recipe, db, returned>>
  /\ UNCHANGED <<extractVars, formatVars, scaleVars, exportVars, imageVars, storeVars, galleryVars>>

\* Variant: every recipe with tags is updated and counted, changed or not.
CleanupRecipeAlways ==
  /\ tpc = "cleanup"
  /\ cursor <= Len(recipes)
  /\ LET r == recipes[cursor]
         cleanedTags ==
           FilterImport(r.tags, IngredientNamesImport(r.ingredients))
     IN IF HasTagsAndIngredients(r)
        THEN /\ db' = [db EXCEPT ![cursor] = WithTags(@, cleanedTags)]
             /\ cleanedCount' = cleanedCount + 1
        ELSE UNCHANGED <<db, cleanedCount>>
  /\ cursor' = cursor + 1
  /\ UNCHANGED <<recipe, tpc, recipes, returned>>
  /\ UNCHANGED <<extractVars, formatVars, scaleVars, exportVars, imageVars, storeVars, galleryVars>>

\* One round of for (const recipe of recipes): skipped without tags or
\* ingredients; updated and counted when the filter removed a tag.
CleanupRecipe ==
  /\ tpc = "cleanup"
  /\ cursor <= Len(recipes)
  /\ LET r == recipes[cursor]
         cleanedTags ==
           FilterImport(r.tags, IngredientNamesImport(r.ingredients))
     IN IF HasTagsAndIngredients(r) /\ Len(cleanedTags) # Len(r.tags)
        THEN /\ db' = [db EXCEPT ![cursor] = WithTags(@, cleanedTags)]
             /\ cleanedCount' = cleanedCount + 1
        ELSE UNCHANGED <<db, cleanedCount>>
  /\ cursor' = cursor + 1
  /\ UNCHANGED <<recipe, tpc, recipes, returned>>
  /\ UNCHANGED <<extractVars, formatVars, scaleVars, exportVars, imageVars, storeVars, galleryVars>>

\* return cleanedCount
CleanupReturn ==
  /\ tpc = "cleanup"
  /\ cursor > Len(recipes)
  /\ returned' = Append(returned, cleanedCount)
  /\ tpc' = "returned"
  /\ UNCHANGED <<recipe, db, recipes, cursor, cleanedCount>>
  /\ UNCHANGED <<extractVars, formatVars, scaleVars, exportVars, imageVars, storeVars, galleryVars>>

\* ------------------------------------------------ addRecipe, exportRecipe
\* An object is a function from its keys to their values.
\* { ...a, ...b }
Spread(a, b) ==
  [k \in DOMAIN a \cup DOMAIN b |-> IF k \in DOMAIN b THEN b[k] ELSE a[k]]

\* the object without the keys in gone
Without(obj, gone) == [k \in DOMAIN obj \ gone |-> obj[k]]

\* const storedRecipe = { ...recipe, _id: id, _createdAt: new Date(), ... }
StoredFrom(r, from) ==
  Spread(r, [k \in {"_id", "_createdAt", "_updatedAt", "_cookCount",
                    "_favorite", "_importedFrom"} |->
               CASE k = "_id" -> "uuid"
                 [] k = "_createdAt" -> "now"
                 [] k = "_updatedAt" -> "now"
                 [] k = "_cookCount" -> "0"
                 [] k = "_favorite" -> "false"
                 [] OTHER -> from])

\* Variant: _importedFrom is not among the names taken out.
exportRecipeKeepsOrigin(r) ==
  Without(r, {"_id", "_createdAt", "_updatedAt", "_lastCookedAt",
              "_cookCount", "_favorite"})

\* const { _id, _createdAt, _updatedAt, _lastCookedAt, _cookCount,
\*         _favorite, _importedFrom, ...soustack } = recipe; return soustack
exportRecipe(r) ==
  Without(r, {"_id", "_createdAt", "_updatedAt", "_lastCookedAt",
              "_cookCount", "_favorite", "_importedFrom"})

\* recipes of type SoustackRecipe: name and ingredients, and any of the
\* optional members
OptionalKeys == {"description", "tags", "notes", "image"}
FieldValues == {"a", "b"}
GivenRecipes ==
  UNION {[{"name", "ingredients"} \cup ks -> FieldValues] :
           ks \in SUBSET OptionalKeys}
Origins == {"undefined", "url"}

\* addRecipe(recipe, importedFrom): db.recipes.add(storedRecipe)
AddRecipe ==
  /\ xpc = "add"
  /\ stored' = StoredFrom(given, importedFrom)
  /\ xpc' = "export"
  /\ UNCHANGED <<given, importedFrom, exported>>
  /\ UNCHANGED <<extractVars, formatVars, scaleVars, tagVars, imageVars, storeVars, galleryVars>>

\* markAsCooked(id): update(id, { _lastCookedAt: new Date(),
\*                                _cookCount: recipe._cookCount + 1 })
MarkAsCooked ==
  /\ xpc = "export"
  /\ stored["_cookCount"] = "0"
  /\ stored' = Spread(stored, [k \in {"_lastCookedAt", "_cookCount"} |->
                                 IF k = "_cookCount" THEN "1" ELSE "now"])
  /\ UNCHANGED <<given, importedFrom, exported, xpc>>
  /\ UNCHANGED <<extractVars, formatVars, scaleVars, tagVars, imageVars, storeVars, galleryVars>>

\* exportRecipe(recipe) on the stored recipe
ExportRecipe ==
  /\ xpc = "export"
  /\ exported' = exportRecipe(stored)
  /\ xpc' = "done"
  /\ UNCHANGED <<given, importedFrom, stored>>
  /\ UNCHANGED <<extractVars, formatVars, scaleVars, tagVars, imageVars, storeVars, galleryVars>>

ExportIdle ==
  /\ given = <<>>
  /\ importedFrom = "undefined"
  /\ stored = <<>>
  /\ exported = <<>>
  /\ xpc = "idle"

\* ------------------------------------------------------- image utilities
\* image?: string | string[]
NoImage == [kind |-> "absent", url |-> "", urls |-> <<>>]
OneImage(url) == [kind |-> "string", url |-> url, urls |-> <<>>]
ImageArray(urls) == [kind |-> "array", url |-> "", urls |-> urls]

\* instructions: Array<string | SoustackInstruction>; image |-> "" stands
\* for a step without image (or with an empty one, which is as falsy)
TextStep == [kind |-> "string", image |-> ""]
ObjectStep(image) == [kind |-> "object", image |-> image]

\* a string, or undefined
Defined(url) == [defined |-> TRUE, url |-> url]
Undefined == [defined |-> FALSE, url |-> ""]

\* !!recipe.image: a non-empty string, or any array
Truthy(image) ==
  \/ image.kind = "string" /\ image.url # ""
  \/ image.kind = "array"

\* function hasStepImage(instruction)
hasStepImage(instruction) ==
  instruction.kind # "string" /\ instruction.image # ""

\* export function detectImagePattern(recipe)
detectImagePattern(r) ==
  LET hasRecipeImage == Truthy(r.image)
      hasStepImages ==
        \E i \in DOMAIN r.instructions : hasStepImage(r.instructions[i])
  IN IF hasRecipeImage /\ hasStepImages THEN "hybrid"
     ELSE IF hasRecipeImage THEN "hero"
     ELSE IF hasStepImages THEN "step-by-step"
     ELSE "none"

\* export function getPrimaryImage(recipe): recipe.image[0] of an empty
\* array is undefined
getPrimaryImage(r) ==
  IF ~Truthy(r.image) THEN Undefined
  ELSE IF r.image.kind = "array"
  THEN (IF r.image.urls = <<>> THEN Undefined ELSE Defined(r.image.urls[1]))
  ELSE Defined(r.image.url)

\* export function getAllImages(recipe)
getAllImages(r) ==
  IF ~Truthy(r.image) THEN <<>>
  ELSE IF r.image.kind = "array" THEN r.image.urls
  ELSE <<r.image.url>>

ImageUrls == {"hero.jpg", "second.jpg"}
RecipeImages ==
  {NoImage, OneImage("")} \cup {OneImage(u) : u \in ImageUrls}
    \cup {ImageArray(us) : us \in SeqsUpTo(ImageUrls, MaxImages)}
Steps == {TextStep, ObjectStep(""), ObjectStep("step.jpg")}
ImageRecipes ==
  [image : RecipeImages, instructions : SeqsUpTo(Steps, MaxSteps)]

\* The three utilities called on one recipe.
DetectImages ==
  /\ ipc = "call"
  /\ pattern' = detectImagePattern(imageRecipe)
  /\ primary' = getPrimaryImage(imageRecipe)
  /\ allImages' = getAllImages(imageRecipe)
  /\ ipc' = "done"
  /\ UNCHANGED imageRecipe
  /\ UNCHANGED <<extractVars, formatVars, scaleVars, tagVars, exportVars, storeVars, galleryVars>>

ImageIdle ==
  /\ imageRecipe = [image |-> NoImage, instructions |-> <<>>]
  /\ pattern = "none"
  /\ primary = Undefined
  /\ allImages = <<>>
  /\ ipc = "idle"

\* ---------------------------------------------- recipes, versions, index
\* One recipe id is followed through db.recipes, db.ingredientIndex,
\* db.notes and db.versions.  Every awaited Dexie operation is one step;
\* calls interleave between steps.

\* db.recipes.get(id): the row, or undefined
NoRow == [present |-> FALSE, fields |-> <<>>]
Row(fields) == [present |-> TRUE, fields |-> fields]

\* the row addRecipe stored; ingredients names a one-ingredient list
FirstFields == [name |-> "a", ingredients |-> "a", _updatedAt |-> 0]
Described == Spread(FirstFields, [description |-> "a"])

\* updates: Partial<SoustackRecipe>
Updates == {[description |-> "b"], [ingredients |-> "b"], [name |-> "b"]}

\* snapshot: SoustackRecipe handed to createVersion by a caller
Snapshots == {[name |-> "a", ingredients |-> "a"]}

NoVersion == [id |-> 0, version |-> 0, snapshot |-> <<>>, note |-> ""]

\* one asynchronous call: its arguments, its position, its locals
NewCall(op, at) ==
  [op |-> op, pc |-> at,
   updates |-> <<>>, versionId |-> 0, snapshot |-> <<>>,
   existing |-> NoRow,       \* existing / current
   count |-> 0,              \* existingVersions
   version |-> NoVersion,    \* version
   fresh |-> NoRow,          \* updated / restored
   alone |-> \A c \in DOMAIN calls : calls[c].pc \in {"done", "threw"}]

At(c, ops, at) == c \in DOMAIN calls /\ calls[c].op \in ops /\ calls[c].pc = at
Goto(c, at) == [calls EXCEPT ![c].pc = at]

\* updateRecipe(id, updates) is called
CallUpdateRecipe ==
  /\ Len(calls) < MaxCalls
  /\ \E u \in Updates :
       calls' = Append(calls, [NewCall("updateRecipe", "get") EXCEPT !.updates = u])
  /\ UNCHANGED <<recipeRow, ingredientIndex, notes, versions, nextVersionId>>
  /\ UNCHANGED <<extractVars, formatVars, scaleVars, tagVars, exportVars, imageVars, galleryVars>>

\* const existing = await db.recipes.get(id); if (!existing) throw
UpdateGet ==
  /\ \E c \in DOMAIN calls :
       /\ At(c, {"updateRecipe"}, "get")
       /\ calls' = [calls EXCEPT ![c].existing = recipeRow,
                                 ![c].pc = IF recipeRow.present THEN "count" ELSE "threw"]
  /\ UNCHANGED <<recipeRow, ingredientIndex, notes, versions, nextVersionId>>
  /\ UNCHANGED <<extractVars, formatVars, scaleVars, tagVars, exportVars, imageVars, galleryVars>>

\* createVersion(recipeId, snapshot, note) is called directly
CallCreateVersion ==
  /\ Len(calls) < MaxCalls
  /\ \E s \in Snapshots :
       calls' = Append(calls, [NewCall("createVersion", "count") EXCEPT !.snapshot = s])
  /\ UNCHANGED <<recipeRow, ingredientIndex, notes, versions, nextVersionId>>
  /\ UNCHANGED <<extractVars, formatVars, scaleVars, tagVars, exportVars, imageVars, galleryVars>>

\* createVersion: existingVersions = await db.versions.where(...).count()
CreateVersionCount ==
  /\ \E c \in DOMAIN calls :
       /\ At(c, {"updateRecipe", "restoreVersion", "createVersion"}, "count")
       /\ calls' = [calls EXCEPT ![c].count = Len(versions), ![c].pc = "add"]
  /\ UNCHANGED <<recipeRow, ingredientIndex, notes, versions, nextVersionId>>
  /\ UNCHANGED <<extractVars, formatVars, scaleVars, tagVars, exportVars, imageVars, galleryVars>>

\* createVersion: db.versions.add({recipeId, version: existingVersions + 1,
\* snapshot, createdAt, note})
CreateVersionAdd ==
  /\ \E c \in DOMAIN calls :
       /\ At(c, {"updateRecipe", "restoreVersion", "createVersion"}, "add")
       /\ versions' =
            Append(versions,
                   [id |-> nextVersionId,
                    version |-> calls[c].count + 1,
                    snapshot |-> IF calls[c].op = "createVersion"
                                 THEN calls[c].snapshot
                                 ELSE calls[c].existing.fields,
                    note |-> CASE calls[c].op = "updateRecipe" -> "Auto-saved before edit"
                               [] calls[c].op = "restoreVersion" -> "Auto-saved before restore"
                               [] OTHER -> ""])
       /\ nextVersionId' = nextVersionId + 1
       /\ calls' = Goto(c, IF calls[c].op = "createVersion" THEN "done" ELSE "update")
  /\ UNCHANGED <<recipeRow, ingredientIndex, notes>>
  /\ UNCHANGED <<extractVars, formatVars, scaleVars, tagVars, exportVars, imageVars, galleryVars>>

\* Table.update(id, changes) with the 'updating' hook: the changed keys are
\* set on the row, the other keys stay, _updatedAt becomes new Date();
\* nothing happens when there is no row
DexieUpdate(row, changes) ==
  IF ~row.present THEN row
  ELSE Row(Spread(Spread(row.fields, changes),
                  [_updatedAt |-> row.fields._updatedAt + 1]))

\* await db.recipes.update(id, updates) in updateRecipe,
\* await db.recipes.update(recipeId, version.snapshot) in restoreVersion
RecipesUpdate ==
  /\ \E c \in DOMAIN calls :
       /\ At(c, {"updateRecipe", "restoreVersion"}, "update")
       /\ recipeRow' =
            DexieUpdate(recipeRow,
                        IF calls[c].op = "updateRecipe" THEN calls[c].updates
                        ELSE calls[c].version.snapshot)
       /\ calls' =
            Goto(c, IF calls[c].op = "updateRecipe"
                       /\ "ingredients" \notin DOMAIN calls[c].updates
                    THEN "done" ELSE "reget")
  /\ UNCHANGED <<ingredientIndex, notes, versions, nextVersionId>>
  /\ UNCHANGED <<extractVars, formatVars, scaleVars, tagVars, exportVars, imageVars, galleryVars>>

\* const updated / restored = await db.recipes.get(id); if (...) index it
Reget ==
  /\ \E c \in DOMAIN calls :
       /\ At(c, {"updateRecipe", "restoreVersion"}, "reget")
       /\ calls' = [calls EXCEPT ![c].fresh = recipeRow,
                                 ![c].pc = IF recipeRow.present THEN "unindex" ELSE "done"]
  /\ UNCHANGED <<recipeRow, ingredientIndex, notes, versions, nextVersionId>>
  /\ UNCHANGED <<extractVars, formatVars, scaleVars, tagVars, exportVars, imageVars, galleryVars>>

\* indexRecipeIngredients: await db.ingredientIndex.where(...).delete()
IndexDelete ==
  /\ \E c \in DOMAIN calls :
       /\ At(c, {"updateRecipe", "restoreVersion"}, "unindex")
       /\ ingredientIndex' = <<>>
       /\ calls' = Goto(c, "index")
  /\ UNCHANGED <<recipeRow, notes, versions, nextVersionId>>
  /\ UNCHANGED <<extractVars, formatVars, scaleVars, tagVars, exportVars, imageVars, galleryVars>>

\* recipe.ingredients.map(...): one index row for each ingredient
IndexRows(fields) == <<fields.ingredients>>

\* indexRecipeIngredients: await db.ingredientIndex.bulkAdd(ingredients)
IndexBulkAdd ==
  /\ \E c \in DOMAIN calls :
       /\ At(c, {"updateRecipe", "restoreVersion"}, "index")
       /\ ingredientIndex' = ingredientIndex \o IndexRows(calls[c].fresh.fields)
       /\ calls' = Goto(c, "done")
  /\ UNCHANGED <<recipeRow, notes, versions, nextVersionId>>
  /\ UNCHANGED <<extractVars, formatVars, scaleVars, tagVars, exportVars, imageVars, galleryVars>>

\* restoreVersion(recipeId, versionId) is called, with an id db.versions
\* has handed out or the next one
CallRestoreVersion ==
  /\ Len(calls) < MaxCalls
  /\ \E v \in 1..nextVersionId :
       calls' = Append(calls, [NewCall("restoreVersion", "version") EXCEPT !.versionId = v])
  /\ UNCHANGED <<recipeRow, ingredientIndex, notes, versions, nextVersionId>>
  /\ UNCHANGED <<extractVars, formatVars, scaleVars, tagVars, exportVars, imageVars, galleryVars>>

\* const version = await db.versions.get(versionId);
\* if (!version || version.recipeId !== recipeId) throw
RestoreGetVersion ==
  /\ \E c \in DOMAIN calls :
       /\ At(c, {"restoreVersion"}, "version")
       /\ LET found == {i \in DOMAIN versions : versions[i].id = calls[c].versionId}
          IN IF found = {}
             THEN calls' = Goto(c, "threw")
             ELSE calls' = [calls EXCEPT ![c].version = versions[CHOOSE i \in found : TRUE],
                                         ![c].pc = "current"]
  /\ UNCHANGED <<recipeRow, ingredientIndex, notes, versions, nextVersionId>>
  /\ UNCHANGED <<extractVars, formatVars, scaleVars, tagVars, exportVars, imageVars, galleryVars>>

\* const current = await db.recipes.get(recipeId); if (current) createVersion
RestoreGetCurrent ==
  /\ \E c \in DOMAIN calls :
       /\ At(c, {"restoreVersion"}, "current")
       /\ calls' = [calls EXCEPT ![c].existing = recipeRow,
                                 ![c].pc = IF recipeRow.present THEN "count" ELSE "update"]
  /\ UNCHANGED <<recipeRow, ingredientIndex, notes, versions, nextVersionId>>
  /\ UNCHANGED <<extractVars, formatVars, scaleVars, tagVars, exportVars, imageVars, galleryVars>>

\* deleteRecipe(id) is called
CallDeleteRecipe ==
  /\ Len(calls) < MaxCalls
  /\ calls' = Append(calls, NewCall("deleteRecipe", "transaction"))
  /\ UNCHANGED <<recipeRow, ingredientIndex, notes, versions, nextVersionId>>
  /\ UNCHANGED <<extractVars, formatVars, scaleVars, tagVars, exportVars, imageVars, galleryVars>>

\* deleteRecipe: the transaction over recipes, ingredientIndex, notes and
\* versions, as one step
DeleteTransaction ==
  /\ \E c \in DOMAIN calls :
       /\ At(c, {"deleteRecipe"}, "transaction")
       /\ calls' = Goto(c, "done")
  /\ recipeRow' = NoRow
  /\ ingredientIndex' = <<>>
  /\ notes' = 0
  /\ versions' = <<>>
  /\ UNCHANGED nextVersionId
  /\ UNCHANGED <<extractVars, formatVars, scaleVars, tagVars, exportVars, imageVars, galleryVars>>

\* addNote(recipeId, content, type): db.notes.add(...)
AddNote ==
  /\ Len(calls) < MaxCalls
  /\ calls' = Append(calls, NewCall("addNote", "done"))
  /\ notes' = notes + 1
  /\ UNCHANGED <<recipeRow, ingredientIndex, versions, nextVersionId>>
  /\ UNCHANGED <<extractVars, formatVars, scaleVars, tagVars, exportVars, imageVars, galleryVars>>

StoreIdle ==
  /\ recipeRow = NoRow
  /\ ingredientIndex = <<>>
  /\ notes = 0
  /\ versions = <<>>
  /\ nextVersionId = 1
  /\ calls = <<>>

\* ------------------------------------------------------------ ImageGallery
\* An array is its identity (ref) and its elements; indices count from 0 as
\* in the component, so entry k of a sequence is at k + 1.

\* images.map((src, index) => ({ src, index }))
\*       .filter((entry) => !!entry.src && !failedImages.has(entry.index))
RECURSIVE EntriesFrom(_, _, _)
EntriesFrom(srcs, failed, index) ==
  IF index >= Len(srcs) THEN <<>>
  ELSE (IF srcs[index + 1] # "" /\ index \notin failed
        THEN <<[src |-> srcs[index + 1], index |-> index]>>
        ELSE <<>>)
       \o EntriesFrom(srcs, failed, index + 1)

\* Variant: the index is clamped only when it is beyond the length (> for >=).
ClampIndexLoose(index, length) ==
  IF index > length
  THEN (IF length - 1 > 0 THEN length - 1 ELSE 0)
  ELSE index

\* $: if (activeIndex >= imageEntries.length)
\*      activeIndex = Math.max(imageEntries.length - 1, 0)
ClampIndex(index, length) ==
  IF index >= length
  THEN (IF length - 1 > 0 THEN length - 1 ELSE 0)
  ELSE index

\* One run of the reactive statements, in the order of their dependencies:
\* the reset on a new images array (it assigns failedImages and
\* activeIndex), then imageEntries, hasImages, hasMultiple, then the clamp
\* of activeIndex.
Update(imgs, index, failed, last) ==
  LET replaced == imgs.ref # last
      failed1 == IF replaced THEN {} ELSE failed
      index1 == IF replaced THEN 0 ELSE index
      entries == EntriesFrom(imgs.srcs, failed1, 0)
  IN [lastImagesRef |-> imgs.ref,
      failedImages |-> failed1,
      imageEntries |-> entries,
      hasImages |-> Len(entries) > 0,
      hasMultiple |-> Len(entries) > 1,
      activeIndex |-> ClampIndex(index1, Len(entries))]

\* the component's state after an update
Updated(imgs, index, failed, last) ==
  LET u == Update(imgs, index, failed, last)
  IN /\ images' = imgs
     /\ lastImagesRef' = u.lastImagesRef
     /\ failedImages' = u.failedImages
     /\ imageEntries' = u.imageEntries
     /\ hasImages' = u.hasImages
     /\ hasMultiple' = u.hasMultiple
     /\ activeIndex' = u.activeIndex

Srcs == {"", "a.jpg"}
ImageArrays == SeqsUpTo(Srcs, MaxGallery)

\* a fresh array is not the one the component holds
FreshRef == IF images.ref = 1 THEN 2 ELSE 1

\* function next()
GalleryNext ==
  /\ event # "none"
  /\ event' = "next"
  /\ Updated(images,
             IF ~hasMultiple THEN activeIndex
             ELSE (activeIndex + 1) % Len(imageEntries),
             failedImages, lastImagesRef)
  /\ UNCHANGED <<extractVars, formatVars, scaleVars, tagVars, exportVars, imageVars, storeVars>>

\* function prev()
GalleryPrev ==
  /\ event # "none"
  /\ event' = "prev"
  /\ Updated(images,
             IF ~hasMultiple THEN activeIndex
             ELSE (activeIndex - 1 + Len(imageEntries)) % Len(imageEntries),
             failedImages, lastImagesRef)
  /\ UNCHANGED <<extractVars, formatVars, scaleVars, tagVars, exportVars, imageVars, storeVars>>

\* function goTo(index), from the thumbnail at position i (shown with
\* hasMultiple)
GoTo ==
  /\ event # "none"
  /\ hasMultiple
  /\ \E i \in 0..(Len(imageEntries) - 1) :
       Updated(images, i, failedImages, lastImagesRef)
  /\ event' = "goTo"
  /\ UNCHANGED <<extractVars, formatVars, scaleVars, tagVars, exportVars, imageVars, storeVars>>

\* function hideImage(entryIndex), from on:error of the main image
\* (imageEntries[activeIndex]?.index) or of a thumbnail (entry.index)
HideImage ==
  /\ event # "none"
  /\ hasImages
  /\ \E k \in DOMAIN imageEntries :
       /\ k = activeIndex + 1 \/ hasMultiple
       /\ Updated(images, activeIndex,
                  failedImages \cup {imageEntries[k].index}, lastImagesRef)
  /\ event' = "hideImage"
  /\ UNCHANGED <<extractVars, formatVars, scaleVars, tagVars, exportVars, imageVars, storeVars>>

\* the parent passes another images array
ReplaceImages ==
  /\ event # "none"
  /\ \E srcs \in ImageArrays :
       Updated([ref |-> FreshRef, srcs |-> srcs], activeIndex, failedImages,
               lastImagesRef)
  /\ event' = "images"
  /\ UNCHANGED <<extractVars, formatVars, scaleVars, tagVars, exportVars, imageVars, storeVars>>

GalleryIdle ==
  /\ images = [ref |-> 0, srcs |-> <<>>]
  /\ activeIndex = 0
  /\ failedImages = {}
  /\ lastImagesRef = 0
  /\ imageEntries = <<>>
  /\ hasImages = FALSE
  /\ hasMultiple = FALSE
  /\ event = "none"

FormatIdle ==
  /\ amount = Amt(0, 1)
  /\ formatted = ""
  /\ fpc = "idle"

ScaleIdle ==
  /\ ing = FreeText(<<>>)
  /\ factor = Whole(1)
  /\ result = NoResult
  /\ spc = "idle"

ExtractIdle ==
  /\ html = Html(<<>>, NoRecipeEl)
  /\ pc = "idle"
  /\ idx = 1
  /\ jsonLdRecipe = JsNull
  /\ schemaOrgRecipe = NoCandidate
  /\ microdataRecipe = NoMicro
  /\ microdataRan = FALSE
  /\ outcome = "pending"

TagIdle ==
  /\ recipe = Recipe(<<>>, {}, <<>>, <<>>)
  /\ db = <<>>
  /\ tpc = "idle"
  /\ recipes = <<>>
  /\ cursor = 1
  /\ cleanedCount = 0
  /\ returned = <<>>

InitFormat ==
  /\ amount \in Amounts
  /\ formatted = ""
  /\ fpc = "call"
  /\ ExtractIdle
  /\ ScaleIdle
  /\ TagIdle
  /\ ExportIdle
  /\ ImageIdle
  /\ StoreIdle
  /\ GalleryIdle

NextFormat == FormatAmount

SpecFormat == InitFormat /\ [][NextFormat]_vars

Init ==
  /\ html \in Documents
  /\ pc = "jsonld"
  /\ idx = 1
  /\ jsonLdRecipe = JsNull
  /\ schemaOrgRecipe = NoCandidate
  /\ microdataRecipe = NoMicro
  /\ microdataRan = FALSE
  /\ outcome = "pending"
  /\ FormatIdle
  /\ ScaleIdle
  /\ TagIdle
  /\ ExportIdle
  /\ ImageIdle
  /\ StoreIdle
  /\ GalleryIdle

InitScale ==
  /\ ing \in Ingredients
  /\ factor \in Factors
  /\ result = NoResult
  /\ spc = "call"
  /\ ExtractIdle
  /\ FormatIdle
  /\ TagIdle
  /\ ExportIdle
  /\ ImageIdle
  /\ StoreIdle
  /\ GalleryIdle

NextScale == ScaleIngredient

SpecScale == InitScale /\ [][NextScale]_vars

InitTags ==
  /\ recipe \in Recipes
  /\ db \in StoredBefore
  /\ tpc = "start"
  /\ recipes = <<>>
  /\ cursor = 1
  /\ cleanedCount = 0
  /\ returned = <<>>
  /\ ExtractIdle
  /\ FormatIdle
  /\ ScaleIdle
  /\ ExportIdle
  /\ ImageIdle
  /\ StoreIdle
  /\ GalleryIdle

NextTags ==
  \/ ScrapeCleanTags
  \/ ImportRecipe
  \/ CleanupStart
  \/ CleanupRecipe
  \/ CleanupReturn

SpecTags == InitTags /\ [][NextTags]_vars

InitExport ==
  /\ given \in GivenRecipes
  /\ importedFrom \in Origins
  /\ stored = <<>>
  /\ exported = <<>>
  /\ xpc = "add"
  /\ ExtractIdle
  /\ FormatIdle
  /\ ScaleIdle
  /\ TagIdle
  /\ ImageIdle
  /\ StoreIdle
  /\ GalleryIdle

NextExport ==
  \/ AddRecipe
  \/ MarkAsCooked
  \/ ExportRecipe

SpecExport == InitExport /\ [][NextExport]_vars

InitImages ==
  /\ imageRecipe \in ImageRecipes
  /\ pattern = "none"
  /\ primary = Undefined
  /\ allImages = <<>>
  /\ ipc = "call"
  /\ ExtractIdle
  /\ FormatIdle
  /\ ScaleIdle
  /\ TagIdle
  /\ ExportIdle
  /\ StoreIdle
  /\ GalleryIdle

NextImages == DetectImages

SpecImages == InitImages /\ [][NextImages]_vars

InitStore ==
  /\ \E fields \in {FirstFields, Described} :
       /\ recipeRow = Row(fields)
       /\ ingredientIndex = IndexRows(fields)
  /\ notes \in {0, 1}
  /\ versions = <<>>
  /\ nextVersionId = 1
  /\ calls = <<>>
  /\ ExtractIdle
  /\ FormatIdle
  /\ ScaleIdle
  /\ TagIdle
  /\ ExportIdle
  /\ ImageIdle
  /\ GalleryIdle

NextStore ==
  \/ CallUpdateRecipe
  \/ UpdateGet
  \/ CallCreateVersion
  \/ CreateVersionCount
  \/ CreateVersionAdd
  \/ RecipesUpdate
  \/ Reget
  \/ IndexDelete
  \/ IndexBulkAdd
  \/ CallRestoreVersion
  \/ RestoreGetVersion
  \/ RestoreGetCurrent
  \/ CallDeleteRecipe
  \/ DeleteTransaction
  \/ AddNote

SpecStore == InitStore /\ [][NextStore]_vars

\* the component after its first update: activeIndex = 0, failedImages
\* empty, lastImagesRef = [] (an array of its own)
InitGallery ==
  /\ \E srcs \in ImageArrays :
       LET imgs == [ref |-> 1, srcs |-> srcs]
           u == Update(imgs, 0, {}, 0)
       IN /\ images = imgs
          /\ lastImagesRef = u.lastImagesRef
          /\ failedImages = u.failedImages
          /\ imageEntries = u.imageEntries
          /\ hasImages = u.hasImages
          /\ hasMultiple = u.hasMultiple
          /\ activeIndex = u.activeIndex
  /\ event = "init"
  /\ ExtractIdle
  /\ FormatIdle
  /\ ScaleIdle
  /\ TagIdle
  /\ ExportIdle
  /\ ImageIdle
  /\ StoreIdle

NextGallery ==
  \/ GalleryNext
  \/ GalleryPrev
  \/ GoTo
  \/ HideImage
  \/ ReplaceImages

SpecGallery == InitGallery /\ [][NextGallery]_vars

Next ==
  \/ ScanScript
  \/ ScanEnd
  \/ Coordinate
  \/ ExtractMicrodata
  \/ Respond

Spec == Init /\ [][Next]_vars

\* ================================================================ claims
\* Vocabulary of the claims, stated on the document and not on the code.
Range(f) == {f[i] : i \in DOMAIN f}
Scanned == pc \in {"coordinate", "microdata", "respond", "done"}

\* the type field equals "Recipe" or is a sequence containing "Recipe"
HasRecipeType(item) ==
  \/ item.type = StrType("Recipe")
  \/ item.type.form = "arr" /\ "Recipe" \in Range(item.type.vals)

\* the elements a parsed payload consists of, in sequence order
Elements(block) ==
  IF block.kind \in {"array", "value"} THEN block.items ELSE <<>>

RECURSIVE AllElements(_)
AllElements(scripts) ==
  IF scripts = <<>> THEN <<>>
  ELSE Elements(Head(scripts)) \o AllElements(Tail(scripts))

\* first element of a sequence passing the type test, JsNull when none does
FirstRecipeIn(items) ==
  IF \E i \in DOMAIN items : HasRecipeType(items[i])
  THEN items[CHOOSE i \in DOMAIN items :
               /\ HasRecipeType(items[i])
               /\ \A j \in 1..(i - 1) : ~HasRecipeType(items[j])]
  ELSE JsNull

\* C1: when the JSON-LD scan yields a Recipe candidate, that candidate is
\* the extraction result and the microdata branch is never entered, also
\* when the candidate is incomplete; the microdata branch is entered only
\* after the scan went through every script block and yielded nothing.
C1_JsonLdFirst ==
  /\ microdataRan =>
       jsonLdRecipe = JsNull /\ idx > Len(html.scripts)
  /\ (pc \in {"respond", "done"} /\ jsonLdRecipe # JsNull) =>
       /\ schemaOrgRecipe.origin = "jsonld"
       /\ schemaOrgRecipe.item = jsonLdRecipe
       /\ schemaOrgRecipe.micro = NoMicro
       /\ microdataRecipe = NoMicro
       /\ ~microdataRan
  /\ (pc = "done" /\ jsonLdRecipe # JsNull) => outcome = "found"

\* an incomplete JSON-LD Recipe wins over an acceptable microdata Recipe
C1_Witness ==
  /\ pc = "done"
  /\ outcome = "found"
  /\ jsonLdRecipe = RecipeB
  /\ schemaOrgRecipe.item = RecipeB
  /\ html.micro = NamedShell
  /\ ~microdataRan

\* C2: extraction ends in exactly one of found and not-found, some step is
\* possible until it has ended, and when neither a JSON-LD Recipe nor an
\* accepted microdata candidate exists the outcome is the explicit
\* not-found result, never an exception (which would surface as a 500).
C2_FoundOrNotFound ==
  /\ outcome \in {"pending", "found", "not-found"}
  /\ (pc = "done") <=> (outcome # "pending")
  /\ pc # "done" => ENABLED Next
  /\ pc = "done" =>
       (outcome = "not-found" <=>
          (jsonLdRecipe = JsNull /\ schemaOrgRecipe.origin # "microdata"))
  /\ pc = "done" =>
       (outcome = "found" <=> schemaOrgRecipe.origin \in {"jsonld", "microdata"})

\* not-found although a script block made the callback throw twice (bad
\* JSON, then a null array entry) and the itemscope is an empty shell
C2_Witness ==
  /\ pc = "done"
  /\ outcome = "not-found"
  /\ html.scripts = <<MalformedBlock, ArrayBlock(<<JsNull>>)>>
  /\ html.micro = EmptyShell

\* a parsed payload that is a Recipe-typed object, or a sequence of objects
\* one of which is Recipe-typed
HoldsValidRecipe(block) ==
  /\ \A i \in DOMAIN Elements(block) : Elements(block)[i].kind = "obj"
  /\ \E i \in DOMAIN Elements(block) : HasRecipeType(Elements(block)[i])

\* C3: a script block that fails to parse does not abort the scan: when a
\* malformed block precedes the first block holding a valid Recipe payload,
\* the scan still returns the Recipe of that block.
C3_MalformedSkipped ==
  Scanned =>
    \A i \in DOMAIN html.scripts :
      ( /\ HoldsValidRecipe(html.scripts[i])
        /\ \E j \in 1..(i - 1) : html.scripts[j].kind = "malformed"
        /\ \A j \in 1..(i - 1) :
             FirstRecipeIn(Elements(html.scripts[j])) = JsNull )
      => jsonLdRecipe = FirstRecipeIn(Elements(html.scripts[i]))

C3_Witness ==
  /\ pc = "done"
  /\ outcome = "found"
  /\ html.scripts = <<MalformedBlock, ArrayBlock(<<Crumb, RecipeA>>)>>
  /\ jsonLdRecipe = RecipeA

\* C4: the scan returns the first element, in document order over the
\* script blocks and in sequence order inside an array payload, that
\* passes the type test, whatever the other entries are, and nothing when
\* no element passes it.
C4_FirstRecipeElement ==
  Scanned => jsonLdRecipe = FirstRecipeIn(AllElements(html.scripts))

\* text with nothing but white space in it
Blank(s) == \A i \in DOMAIN s : s[i] = Sp

\* t is s without its leading and trailing white space
IsTrimOf(t, s) ==
  IF Blank(s) THEN t = <<>>
  ELSE \E i, j \in DOMAIN s :
         /\ i <= j
         /\ t = SubSeq(s, i, j)
         /\ s[i] # Sp /\ s[j] # Sp
         /\ \A k \in DOMAIN s : (k < i \/ k > j) => s[k] = Sp

MicrodataDone ==
  pc \in {"respond", "done"} /\ microdataRan /\ html.micro.present

\* an element from which no non-empty text can be extracted
NothingIn(e) ==
  Blank(e.content) /\ Blank(e.href) /\ Blank(e.src) /\ Blank(e.nested)
    /\ Blank(e.text)

\* an itemscope with no extractable property, ingredient or instruction
IsEmptyShell(el) ==
  /\ \A p \in SimplePropSet :
       \A i \in DOMAIN el.nodes[p] : NothingIn(el.nodes[p][i])
  /\ \A i \in DOMAIN el.ingredients : NothingIn(el.ingredients[i])
  /\ \A i \in DOMAIN el.instructions : NothingIn(el.instructions[i])

\* C5: a microdata result is accepted only if it has a (non-empty) name or
\* at least one (non-empty) ingredient; an itemscope from which no
\* non-empty property or ingredient text can be extracted is no match and
\* the extraction ends in not-found.
C5_EmptyShellNoMatch ==
  (pc = "done" /\ microdataRan /\ html.micro.present) =>
    /\ outcome = "found" =>
         \/ ~Blank(schemaOrgRecipe.micro.val["name"])
         \/ \E i \in DOMAIN schemaOrgRecipe.micro.recipeIngredient :
              ~Blank(schemaOrgRecipe.micro.recipeIngredient[i])
    /\ IsEmptyShell(html.micro) => outcome = "not-found"

\* the value an ingredient element contributes: its content attribute,
\* else its text, without surrounding white space
IsIngredientValue(t, e) ==
  IF e.content # <<>> THEN IsTrimOf(t, e.content) ELSE IsTrimOf(t, e.text)

\* C6 (as stated): recipeIngredient has one entry per recipeIngredient
\* element of the first Recipe itemscope, in document order.
C6_OnePerElement ==
  MicrodataDone =>
    /\ Len(microdataRecipe.recipeIngredient) = Len(html.micro.ingredients)
    /\ \A i \in DOMAIN html.micro.ingredients :
         IsIngredientValue(microdataRecipe.recipeIngredient[i],
                           html.micro.ingredients[i])

\* C6 (amended): recipeIngredient has one entry per recipeIngredient
\* element whose content attribute or text content is non-empty, in the
\* document order of those elements, each entry being the trimmed value;
\* elements with neither are skipped, and the key is present only when
\* there is an entry.
C6_OnePerNonEmptyElement ==
  MicrodataDone =>
    LET kept == SelectSeq(html.micro.ingredients,
                          LAMBDA e : e.content # <<>> \/ e.text # <<>>)
    IN /\ Len(microdataRecipe.recipeIngredient) = Len(kept)
       /\ \A i \in DOMAIN kept :
            IsIngredientValue(microdataRecipe.recipeIngredient[i], kept[i])
       /\ ("recipeIngredient" \in microdataRecipe.keys) <=> (kept # <<>>)

C6_Witness ==
  /\ pc = "done"
  /\ microdataRan
  /\ html.micro.ingredients =
       <<Elem(<<>>, <<>>, <<>>, <<>>, <<"x", Sp>>), BlankElem,
         Elem(<<"i">>, <<>>, <<>>, <<>>, <<"x", Sp>>)>>
  /\ microdataRecipe.recipeIngredient = <<(<<"x">>), (<<"i">>)>>
  /\ schemaOrgRecipe.micro.recipeIngredient = <<(<<"x">>), (<<"i">>)>>

\* C7: each recognized simple property takes its value from the first
\* element carrying that itemprop: the first non-empty of its content
\* attribute, href attribute, src attribute and trimmed text content; the
\* property is absent when no element carries the itemprop.
C7_ValuePrecedence ==
  MicrodataDone =>
    \A p \in SimplePropSet :
      LET nodes == html.micro.nodes[p]
          v == microdataRecipe.val[p]
      IN IF nodes = <<>> THEN p \notin microdataRecipe.keys /\ v = <<>>
         ELSE LET e == nodes[1]
              IN /\ p \in microdataRecipe.keys
                 /\ IF e.content # <<>> THEN v = e.content
                    ELSE IF e.href # <<>> THEN v = e.href
                    ELSE IF e.src # <<>> THEN v = e.src
                    ELSE IsTrimOf(v, e.text)

C7_Witness ==
  /\ pc = "done"
  /\ microdataRan
  /\ html.micro.nodes["name"] =
       <<Elem(<<"c">>, <<"h">>, <<>>, <<>>, <<Sp, "t", Sp>>)>>
  /\ html.micro.nodes["image"] = <<Elem(<<>>, <<>>, <<"s">>, <<>>, <<>>)>>
  /\ schemaOrgRecipe.micro.val["name"] = <<"c">>
  /\ schemaOrgRecipe.micro.val["image"] = <<"s">>

\* ------------------------------------------------------ formatter claims
\* the glyph of e eighths, 1 <= e <= 7
EighthGlyph(e) == <<"1/8", "1/4", "3/8", "1/2", "5/8", "3/4", "7/8">>[e]

\* whole part followed by a fraction glyph; the whole part alone when
\* there is no fraction, the glyph alone when the whole part is zero
MixedText(whole, glyph) ==
  IF glyph = "" THEN ToString(whole)
  ELSE IF whole = 0 THEN glyph
  ELSE ToString(whole) \o " " \o glyph

EighthsText(k) ==
  MixedText(k \div 8, IF k % 8 = 0 THEN "" ELSE EighthGlyph(k % 8))

\* k/unit is a multiple of 1/unit nearest to the amount a
IsNearest(k, unit, a) ==
  \A j \in 0..(unit * (MaxWhole + 1)) :
    Abs(unit * a.num - k * a.den) <= Abs(unit * a.num - j * a.den)

\* C8: for every non-negative amount the returned string denotes the
\* multiple of 1/8 nearest to the amount; 0.5 gives the one-half glyph and
\* 1.5 gives "1" followed by the one-half glyph.
C8_NearestEighth ==
  fpc = "done" =>
    /\ \E k \in 0..(8 * (MaxWhole + 1)) :
         IsNearest(k, 8, amount) /\ formatted = EighthsText(k)
    /\ 2 * amount.num = amount.den => formatted = "1/2"
    /\ 2 * amount.num = 3 * amount.den => formatted = "1 1/2"

C8_Witness ==
  /\ fpc = "done"
  /\ amount = Amt(150, 100)
  /\ formatted = "1 1/2"

\* the fractional part of a is within 0.02 of n/d
FracNear(a, n, d) ==
  100 * Abs((a.num % a.den) * d - n * a.den) < 2 * a.den * d

\* C9: an amount whose fractional part is within 0.02 of one third or of
\* two thirds is rendered with the one-third or two-thirds glyph; 0.33
\* gives the one-third glyph.
C9_ThirdsGlyph ==
  fpc = "done" =>
    /\ FracNear(amount, 1, 3) =>
         formatted = MixedText(amount.num \div amount.den, "1/3")
    /\ FracNear(amount, 2, 3) =>
         formatted = MixedText(amount.num \div amount.den, "2/3")

Listed ==
  {<<1, 8>>, <<1, 4>>, <<1, 3>>, <<3, 8>>, <<1, 2>>, <<5, 8>>, <<2, 3>>,
   <<3, 4>>, <<7, 8>>}

TenthsText(t) ==
  IF t % 10 = 0 THEN ToString(t \div 10)
  ELSE ToString(t \div 10) \o "." \o ToString(t % 10)

\* C10: an amount whose fractional part is not within 0.02 of a listed
\* fraction is rendered as a decimal with at most one digit after the
\* point and no trailing ".0"; 2.1 gives "2.1".
C10_DecimalOtherwise ==
  (fpc = "done" /\ \A f \in Listed : ~FracNear(amount, f[1], f[2])) =>
    \E t \in 0..(10 * (MaxWhole + 1)) :
      IsNearest(t, 10, amount) /\ formatted = TenthsText(t)

\* --------------------------------------------------- claims on scaling
ScaleDone == spc = "done"

\* C11: scaleIngredient returns a display string and a scaled flag
\* without throwing, for every ingredient, every policy with any payload
\* and every positive factor.
C11_NeverThrows == ScaleDone => ~result.threw

\* a structured ingredient with a quantity went through the policy and
\* the clamps, and scaleIngredient returned
ScaledStructured ==
  /\ ScaleDone
  /\ ing.kind = "object"
  /\ ing.quantity.present
  /\ ~result.threw

Configured(key) == key \in ing.scaling.keys

\* x is neither below a configured min nor above a configured max
WithinClamps(x) ==
  /\ Configured("min") => ~Less(x, ing.scaling.min)
  /\ Configured("max") => ~Less(ing.scaling.max, x)

IsWhole(x) == x.den = 1
Member(x, values) == \E i \in DOMAIN values : values[i] = x

\* C12 (as stated): at scale factor 1 the scaled amount equals the base
\* amount, for every base amount and every policy.
C12_IdentityAtOne ==
  ScaledStructured /\ factor = Whole(1)
    => result.amount = ing.quantity.amount

\* C12 (amended): at scale factor 1 the scaled amount equals the base
\* amount x under the linear, proportional, sublinear and fixed policies,
\* and under the discrete policy when x is a whole number that, where
\* permitted values are given, is one of them; in each case provided x is
\* within the configured clamps.
C12_IdentityAtOneWithin ==
  ScaledStructured /\ factor = Whole(1)
  /\ WithinClamps(ing.quantity.amount)
  /\ (ing.scaling.type = "discrete" =>
        /\ IsWhole(ing.quantity.amount)
        /\ Configured("values") =>
             Member(ing.quantity.amount, ing.scaling.values))
    => result.amount = ing.quantity.amount

\* a proportional ingredient with both clamps configured was scaled by 1
C12_Witness ==
  /\ ScaledStructured /\ factor = Whole(1)
  /\ ing.quantity.amount = Amt(3, 2)
  /\ ing.scaling.type = "proportional"
  /\ ing.scaling.keys = {"min", "max"}
  /\ ing.scaling.min = Whole(1)
  /\ result.amount = Amt(3, 2)

\* C13 (as stated): under the fixed policy the scaled amount equals the
\* base amount for every scale factor.
C13_FixedIsBase ==
  ScaledStructured /\ ing.scaling.type = "fixed"
    => result.amount = ing.quantity.amount

\* C13 (amended): under the fixed policy the scaled amount does not depend
\* on the factor: it is the same for every factor, and it is the base
\* amount whenever the base amount is within the configured clamps.
C13_FixedIgnoresFactor ==
  ScaledStructured /\ ing.scaling.type = "fixed"
    => /\ \A f \in Factors : scaleIngredient(ing, f).amount = result.amount
       /\ WithinClamps(ing.quantity.amount)
            => result.amount = ing.quantity.amount

\* a fixed ingredient without clamps was scaled by 4 and kept its amount
C13_Witness ==
  /\ ScaledStructured /\ ing.scaling.type = "fixed"
  /\ factor = Whole(4)
  /\ ing.scaling.keys = {}
  /\ ing.quantity.amount = Amt(3, 2)
  /\ result.amount = Amt(3, 2)

\* n is x rounded to the nearest whole number, halves up
IsRound(n, x) ==
  /\ IsWhole(n)
  /\ 2 * n.num * x.den <= 2 * x.num + x.den
  /\ 2 * x.num + x.den < (2 * n.num + 2) * x.den

MaxTarget == 100

\* C14: under the discrete policy with permitted values and no clamps, the
\* scaled amount is one of the permitted values, and none of them is
\* closer to round(base * factor).
C14_NearestPermitted ==
  ScaledStructured /\ ing.scaling.type = "discrete"
  /\ Configured("values") /\ ~Configured("min") /\ ~Configured("max")
    => \E n \in 0..MaxTarget :
         /\ IsRound(Whole(n), Mul(ing.quantity.amount, factor))
         /\ Member(result.amount, ing.scaling.values)
         /\ \A i \in DOMAIN ing.scaling.values :
              ~Less(Dist(ing.scaling.values[i], Whole(n)),
                    Dist(result.amount, Whole(n)))

\* 1.5 scaled by 1.3 rounds to 2, and of the permitted values 4 and 2 the
\* later one was returned
C14_Witness ==
  /\ ScaledStructured /\ ing.scaling.type = "discrete"
  /\ ing.scaling.keys = {"values"}
  /\ ing.scaling.values = <<Whole(4), Whole(2)>>
  /\ ing.quantity.amount = Amt(3, 2)
  /\ factor = Amt(13, 10)
  /\ result.amount = Whole(2)

\* C29: under the discrete policy with permitted values and no clamps, the
\* value returned is the first of the nearest ones in the order of the
\* values sequence: it is strictly closer to round(base * factor) than
\* every value before it and no value after it is closer; of two
\* equidistant nearest values the earlier one is returned.
C29_EarlierWinsTie ==
  ScaledStructured /\ ing.scaling.type = "discrete"
  /\ Configured("values") /\ ~Configured("min") /\ ~Configured("max")
    => \E n \in 0..MaxTarget :
         /\ IsRound(Whole(n), Mul(ing.quantity.amount, factor))
         /\ \E j \in DOMAIN ing.scaling.values :
              /\ ing.scaling.values[j] = result.amount
              /\ \A i \in DOMAIN ing.scaling.values :
                   /\ i < j => Less(Dist(result.amount, Whole(n)),
                                    Dist(ing.scaling.values[i], Whole(n)))
                   /\ i > j => ~Less(Dist(ing.scaling.values[i], Whole(n)),
                                     Dist(result.amount, Whole(n)))

\* 1.5 scaled by 2 is 3, as far from 4 as from 2: with the values 4, 2
\* the result is 4
C29_Witness ==
  /\ ScaledStructured /\ ing.scaling.type = "discrete"
  /\ ing.scaling.keys = {"values"}
  /\ ing.scaling.values = <<Whole(4), Whole(2)>>
  /\ ing.quantity.amount = Amt(3, 2)
  /\ factor = Whole(2)
  /\ result.amount = Whole(4)

\* and with the values 2, 4 it is 2
C29_WitnessOtherOrder ==
  /\ ScaledStructured /\ ing.scaling.type = "discrete"
  /\ ing.scaling.keys = {"values"}
  /\ ing.scaling.values = <<Whole(2), Whole(4)>>
  /\ ing.quantity.amount = Amt(3, 2)
  /\ factor = Whole(2)
  /\ result.amount = Whole(2)

\* C15: the min clamp is applied and then the max clamp, for every policy:
\* with max configured the final amount is at most max; with min
\* configured and max absent or not below min it is at least min; with min
\* above max it is max.
C15_ClampOrder ==
  ScaledStructured
    => /\ Configured("max") => ~Less(ing.scaling.max, result.amount)
       /\ (Configured("min")
           /\ (~Configured("max") \/ ~Less(ing.scaling.max, ing.scaling.min)))
            => ~Less(result.amount, ing.scaling.min)
       /\ (Configured("min") /\ Configured("max")
           /\ Less(ing.scaling.max, ing.scaling.min))
            => result.amount = ing.scaling.max

\* min 3 above max 2: a linear amount of 16 came out as 2
C15_Witness ==
  /\ ScaledStructured
  /\ ing.scaling.keys = {"min", "max"}
  /\ ing.scaling.min = Whole(3)
  /\ ing.scaling.max = Whole(2)
  /\ ing.scaling.type = "linear"
  /\ ing.quantity.amount = Whole(4)
  /\ factor = Whole(4)
  /\ result.amount = Whole(2)

\* C16 (as stated): for a structured ingredient the scaled flag is true
\* exactly when the ingredient has a quantity and the factor is not 1;
\* without a quantity the display is the item text and the flag is false;
\* and the flag tells whether scaling was actually applied, so it is not
\* set for an ingredient of the fixed policy, which is never scaled.
C16_FlagTellsScaling ==
  ScaleDone /\ ing.kind = "object" /\ ~result.threw
    => /\ result.scaled <=> (ing.quantity.present /\ factor # Whole(1))
       /\ ~ing.quantity.present
            => result.display = ing.item /\ ~result.scaled
       /\ result.scaled => ing.scaling.type # "fixed"

\* C16 (amended): for a structured ingredient the scaled flag is true
\* exactly when the ingredient has a quantity and the factor is not 1,
\* under every policy, fixed included; without a quantity the display is
\* the item text and the flag is false.
C16_FlagIffQuantityAndFactor ==
  ScaleDone /\ ing.kind = "object" /\ ~result.threw
    => /\ result.scaled <=> (ing.quantity.present /\ factor # Whole(1))
       /\ ~ing.quantity.present
            => result.display = ing.item /\ ~result.scaled

\* a fixed ingredient came back from factor 2 with its amount unchanged
\* and the flag set
C16_Witness ==
  /\ ScaledStructured
  /\ ing.scaling.type = "fixed"
  /\ factor = Whole(2)
  /\ result.amount = ing.quantity.amount
  /\ result.scaled

\* the well-formed leading tokens and the numbers they denote
TokenValues ==
  {[token |-> <<"2">>, value |-> Whole(2)],
   [token |-> <<"1">>, value |-> Whole(1)],
   [token |-> <<"1", "/", "2">>, value |-> Amt(1, 2)],
   [token |-> <<"1", "/", "4">>, value |-> Amt(1, 4)],
   [token |-> <<"1", ".", "5">>, value |-> Amt(3, 2)]}

WellFormed(token) == \E tv \in TokenValues : tv.token = token
ValueOf(token) == (CHOOSE tv \in TokenValues : tv.token = token).value

RECURSIVE SumOf(_)
SumOf(ts) ==
  IF ts = <<>> THEN Whole(0) ELSE Add(ValueOf(Head(ts)), SumOf(Tail(ts)))

\* the texts that are the tokens ts, one space apart, and then rest
LeadingTokens == SeqsUpTo(Tokens, MaxTokens) \ {<<>>}
Reads(ts, rest) == ing.kind = "string" /\ ing.item = Join(ts) \o rest

\* C17: for a free-text ingredient that starts with numeric or fraction
\* tokens and a factor other than 1, the display is the formatted value of
\* (the sum of the tokens times the factor), a space and the remaining
\* text, and scaled is true.
C17_LeadingQuantityScaled ==
  \A ts \in LeadingTokens, rest \in Rests :
    (/\ ScaleDone /\ Reads(ts, rest) /\ factor # Whole(1)
     /\ \A i \in DOMAIN ts : WellFormed(ts[i]))
      => /\ ~result.threw
         /\ result.scaled
         /\ result.display =
              <<formatAmount(Mul(SumOf(ts), factor), "")>> \o <<Sp>>
                \o TrimStart(rest)

\* "2 cups flour" at factor 2 gave "4 cups flour"
C17_Witness ==
  /\ ScaleDone /\ factor = Whole(2) /\ result.scaled
  /\ ing = FreeText(<<"2", " ", "c", "u", "p", "s", " ", "f", "l", "o", "u", "r">>)
  /\ result.display = <<"4", " ", "c", "u", "p", "s", " ", "f", "l", "o", "u", "r">>

\* C18: a free-text ingredient is returned unchanged with scaled false,
\* and nothing is thrown, whenever the factor is 1, the text has no leading
\* numeric or fraction pattern, or one of its leading tokens is malformed
\* (a fraction with a missing or zero denominator, say).
C18_UnscalableUnchanged ==
  (/\ ScaleDone /\ ing.kind = "string"
   /\ \/ factor = Whole(1)
      \/ ing.item \in PlainTexts
      \/ \E ts \in LeadingTokens, rest \in Rests :
           Reads(ts, rest) /\ \E i \in DOMAIN ts : ~WellFormed(ts[i]))
    => ~result.threw /\ result.display = ing.item /\ ~result.scaled

\* ------------------------------------------- claims on the tag sanitizers
\* the texts of an ingredient, and the tokens derived from their words:
\* lowercased, non-word characters stripped, longer than 2, not all digits
TextsOf(g) ==
  IF g.kind = "string" THEN {g.text}
  ELSE IF g.kind = "object"
  THEN {g.item : k \in g.keys \cap {"item"}}
         \cup {g.name : k \in g.keys \cap {"name"}}
  ELSE {}

WordsOf(text) ==
  LET parts == SplitSeparators(text) IN {parts[i] : i \in DOMAIN parts}

DerivedTokens(ingredients) ==
  {tok \in {StripNonWord(toLowerCase(w)) :
              w \in UNION {WordsOf(t) :
                             t \in UNION {TextsOf(ingredients[i]) :
                                            i \in DOMAIN ingredients}}} :
     Len(tok) > 2 /\ ~AllDigits(tok)}

Normalized(tag) == StripNonWord(toLowerCase(tag))

\* no tag of r is a token derived from a word of its ingredients
NoIngredientTag(r) ==
  HasTagsAndIngredients(r)
    => \A i \in DOMAIN r.tags :
         Normalized(r.tags[i]) \notin DerivedTokens(r.ingredients)

\* C19: wherever the sanitizer has run (the scrape endpoint, importRecipe,
\* cleanupRecipeTags), no tag is left whose normalized form is a token
\* derived from a word of an ingredient.
C19_IngredientTagsDropped ==
  /\ tpc \in {"scraped", "imported"} => NoIngredientTag(recipe)
  /\ tpc = "returned" => \A i \in DOMAIN db : NoIngredientTag(db[i])

\* C20: each sanitizer leaves what it has sanitized unchanged when it runs
\* again on it, and once cleanupRecipeTags has returned, a further run
\* updates no recipe and returns 0.
C20_SecondPassIdle ==
  /\ [](/\ tpc = "scraped" => CleanedByScrape(recipe) = recipe
        /\ tpc = "imported" => CleanedByImport(recipe) = recipe
        /\ tpc = "returned" =>
             \A i \in DOMAIN db : CleanedByImport(db[i]) = db[i])
  /\ [][Len(returned) >= 1
          => /\ db' = db
             /\ Len(returned') > Len(returned)
                  => returned'[Len(returned')] = 0]_vars

\* the first run repaired stored recipes, the second found nothing to do
C20_Witness ==
  /\ Len(returned) = 2
  /\ returned[1] > 0
  /\ returned[2] = 0

\* no tag occurs twice in the tags of r
NoDuplicateTags(r) ==
  "tags" \in r.keys
    => \A i, j \in DOMAIN r.tags : r.tags[i] = r.tags[j] => i = j

\* C21: after sanitization (by the endpoint, by importRecipe or by
\* cleanupRecipeTags) a recipe's tag sequence contains no duplicate tags.
C21_NoDuplicateTags ==
  /\ tpc \in {"scraped", "imported"} => NoDuplicateTags(recipe)
  /\ tpc = "returned" => \A i \in DOMAIN db : NoDuplicateTags(db[i])

\* C22: no step mutates in place the recipe object it was given (nor the
\* ingredient it scales): sanitizing tags in the endpoint and in
\* importRecipe leaves the object unchanged and delivers the sanitized
\* tags as a new value.
C22_NoInPlaceMutation == [][recipe' = recipe /\ ing' = ing]_vars

\* C23: importRecipe accepts a recipe only if it has a name and at least
\* one ingredient; when it rejects one, nothing is stored.
C23_ImportValidates ==
  /\ tpc = "imported"
       => /\ recipe.name # <<>>
          /\ "ingredients" \in recipe.keys
          /\ Len(recipe.ingredients) >= 1
  /\ tpc = "threw" => db \in StoredBefore

\* ------------------------------------------------- claims on the database
\* C24: exporting the StoredRecipe that addRecipe(r) created yields exactly
\* the fields and values of r, with no key that starts with an underscore
\* (the app's fields: _id, _createdAt, _updatedAt, _lastCookedAt,
\* _cookCount, _favorite, _importedFrom).
C24_ExportRoundTrip ==
  xpc = "done"
    => /\ exported = given
       /\ DOMAIN exported \cap
            {"_id", "_createdAt", "_updatedAt", "_lastCookedAt",
             "_cookCount", "_favorite", "_importedFrom"} = {}

\* a recipe with a description, imported from a URL and cooked once, was
\* exported
C24_Witness ==
  /\ xpc = "done"
  /\ "description" \in DOMAIN given
  /\ importedFrom = "url"
  /\ "_lastCookedAt" \in DOMAIN stored
  /\ exported = given

\* ------------------------------------------- claims on the image utilities
\* the recipe has a recipe-level image, it has some step image
HasRecipeLevelImage(r) ==
  \/ r.image.kind = "string" /\ r.image.url # ""
  \/ r.image.kind = "array" /\ r.image.urls # <<>>
HasSomeStepImage(r) ==
  \E i \in DOMAIN r.instructions :
    r.instructions[i].kind = "object" /\ r.instructions[i].image # ""

\* C25: detectImagePattern returns 'hybrid' iff the recipe has a
\* recipe-level image and some step image, 'hero' iff only a recipe-level
\* image, 'step-by-step' iff only step images, 'none' iff neither; and
\* whenever it returns 'hero' or 'hybrid', getPrimaryImage returns an image
\* and getAllImages is not empty.
C25_PatternOnlyWithAssets ==
  ipc = "done"
    => LET top == HasRecipeLevelImage(imageRecipe)
           step == HasSomeStepImage(imageRecipe)
       IN /\ pattern = "hybrid" <=> (top /\ step)
          /\ pattern = "hero" <=> (top /\ ~step)
          /\ pattern = "step-by-step" <=> (~top /\ step)
          /\ pattern = "none" <=> (~top /\ ~step)
          /\ pattern \in {"hero", "hybrid"}
               => primary.defined /\ allImages # <<>>

\* ----------------------------------------- claims on versions and deletion
Finished(c) == calls[c].pc \in {"done", "threw"}

\* C26: once deleteRecipe(id) has completed, no row of ingredientIndex,
\* notes or versions has recipeId = id, also when calls of updateRecipe or
\* restoreVersion for the same id were interleaved with it at their await
\* points and have run to completion.
C26_DeleteLeavesNoRows ==
  (/\ \E c \in DOMAIN calls : calls[c].op = "deleteRecipe" /\ calls[c].pc = "done"
   /\ \A c \in DOMAIN calls :
        /\ calls[c].op \in {"deleteRecipe", "updateRecipe", "restoreVersion"}
        /\ Finished(c))
    => /\ ingredientIndex = <<>>
       /\ notes = 0
       /\ versions = <<>>

\* the fields of a recipe, the store's own timestamp aside
RecipeKeys(fields) == DOMAIN fields \ {"_updatedAt"}

\* C27: after restoreVersion(recipeId, versionId) succeeds (here: called
\* when no other call is in flight, and being the last call), every recipe
\* field has the value stored in the version's snapshot, a field absent from
\* the snapshot is no longer present, and the state before the restore was
\* saved as a new version first.
C27_RestoreEqualsSnapshot ==
  \A c \in DOMAIN calls :
    (/\ c = Len(calls)
     /\ calls[c].op = "restoreVersion"
     /\ calls[c].pc = "done"
     /\ calls[c].alone
     /\ recipeRow.present)
      => LET snapshot == calls[c].version.snapshot
         IN /\ \A k \in RecipeKeys(snapshot) :
                 k \in DOMAIN recipeRow.fields /\ recipeRow.fields[k] = snapshot[k]
            /\ RecipeKeys(recipeRow.fields) \subseteq RecipeKeys(snapshot)
            /\ versions # <<>>
            /\ versions[Len(versions)].snapshot = calls[c].existing.fields
            /\ versions[Len(versions)].note = "Auto-saved before restore"

\* C28: the version numbers of the recipe's RecipeVersion rows are pairwise
\* distinct and are 1..n for n rows, whatever the interleaving of
\* updateRecipe, restoreVersion and createVersion.
C28_VersionsNumbered ==
  /\ \A i, j \in DOMAIN versions :
       i # j => versions[i].version # versions[j].version
  /\ {versions[i].version : i \in DOMAIN versions} = 1..Len(versions)

\* ------------------------------------------------- claims on ImageGallery
\* the images that can be displayed: a src, and not failed
Displayable ==
  {i \in 0..(Len(images.srcs) - 1) :
     images.srcs[i + 1] # "" /\ i \notin failedImages}

IndexValid ==
  /\ Len(imageEntries) = Cardinality(Displayable)
  /\ IF Displayable = {} THEN activeIndex = 0
     ELSE 0 <= activeIndex /\ activeIndex < Cardinality(Displayable)

\* what one handler with its update does: next and prev change nothing
\* with fewer than two displayable images, a new array resets
HandlerKeeps ==
  /\ (event' \in {"next", "prev"} /\ Cardinality(Displayable) < 2)
       => (/\ activeIndex' = activeIndex
           /\ failedImages' = failedImages
           /\ images' = images
           /\ imageEntries' = imageEntries)
  /\ event' = "images" => (activeIndex' = 0 /\ failedImages' = {})

\* C30: after any sequence of next, prev, goTo (with the position of a
\* shown thumbnail), hideImage and replacement of the images array, once
\* the reactive statements have run, activeIndex is 0 when no image is
\* displayable and otherwise 0 <= activeIndex < number of displayable
\* images; next and prev change nothing when fewer than two images are
\* displayable; replacing the images array resets activeIndex to 0 and
\* clears the failed set.
C30_GalleryIndexValid ==
  /\ [](event # "none" => IndexValid)
  /\ [][HandlerKeeps]_vars

\* the last of three displayable images was shown and failed to load: the
\* index moved to the new last one
C30_Witness ==
  /\ event = "hideImage"
  /\ Len(images.srcs) = 3
  /\ failedImages = {2}
  /\ Len(imageEntries) = 2
  /\ activeIndex = 1

====
